---- MODULE Spec2Model ----
(***************************************************************************)
(* Model of the artifact search engine of src/src/config_searcher.py:      *)
(* metadata extraction (_parse_yml_file, _parse_java_file), relevance      *)
(* scoring (_calculate_relevance), ranked search (search) and the          *)
(* "list everything" grouping (get_all_configs).                           *)
(*                                                                         *)
(* Text is a sequence of one-character strings.  Python floats 1.0, 2.0,   *)
(* 3.0 are the integers 1, 2, 3 (every score is a sum of these, which      *)
(* floating point adds exactly).  A Python value is a tagged record:       *)
(* [t |-> "str", v |-> text], [t |-> "list", v |-> sequence of values],    *)
(* [t |-> "int", v |-> n] or None.                                         *)
(***************************************************************************)
EXTENDS Integers, Sequences, FiniteSets, TLC

VARIABLES
    criteria,      \* SearchCriteria of the current call
    config_roots,  \* per entry of self.config_dirs: the directory on disk
    java_roots,    \* per entry of self.java_dirs: the directory on disk
    mode,          \* the entry point: "search", "get_all_configs", "parse", "score",
                   \* "modify", "format", "execute", "execute_with_modifications",
                   \* "agent"
    pc,            \* position inside the call
    cursor,        \* index of the next candidate file of the running loop
    matches,       \* the local list `matches` of search()
    parsed,        \* a file extracted on its own and what its parse returned
    result,        \* the value returned to the caller (None before return)
    raised,        \* TRUE when an exception left the public entry point
    sc_meta,       \* scorer call: metadata argument
    sc_text,       \* scorer call: content argument
    sc_out,        \* scorer call: outcome of _calculate_relevance
    mp_content,    \* modify_parameters call: java_content argument
    mp_mods,       \* modify_parameters call: modifications.items()
    mp_out,        \* modify_parameters call: its outcome
    mp_again,      \* outcome of modify_parameters on the text it returned
    mp_params,     \* extract_parameters of the text it returned
    fv_value,      \* _format_value call: value argument
    fv_type,       \* _format_value call: java_type argument
    fv_out,        \* _format_value call: its outcome
    ex_config,     \* execute_test call: the JavaTestConfig
    ex_markers,    \* build files present in the working directory
    ex_output,     \* entries of the output directory tree
    ex_cmd,        \* the command line handed to subprocess.run
    ex_process,    \* what the external process did: "none" before it ends
    ex_returncode, \* the exit code of the process (None unless it exited)
    ex_result,     \* the ExecutionResult returned (None before return)
    ex_before,     \* entries of the output directory tree when the call began
    ex_launches,   \* calls of subprocess.run made so far
    ex_frame,      \* the execute_with_modifications call under way, or None
    ex_disk,       \* source files and scratch directories on disk
    ex_returned,   \* what execute_with_modifications returned or raised
    ag_call,       \* the TradeSurveillanceAgent operation under way, or None
    ag_trace,      \* the components the operation invoked, in order
    ag_response    \* what the operation returned or raised (None before)

modifierVars == <<mp_content, mp_mods, mp_out, mp_again, mp_params,
                  fv_value, fv_type, fv_out>>

executorVars == <<ex_config, ex_markers, ex_output, ex_cmd, ex_process,
                  ex_returncode, ex_result, ex_before, ex_launches, ex_frame, ex_disk,
                  ex_returned>>

agentVars == <<ag_call, ag_trace, ag_response>>

vars == <<criteria, config_roots, java_roots, mode, pc, cursor, matches,
          parsed, result, raised, sc_meta, sc_text, sc_out,
          modifierVars, executorVars, agentVars>>

None == [t |-> "none"]

Str(s) == [t |-> "str", v |-> s]

Lst(l) == [t |-> "list", v |-> l]

IntV(n) == [t |-> "int", v |-> n]

\* no JavaCodeModifier call is under way
ModifierIdle ==
    /\ mp_content = <<>>
    /\ mp_mods = <<>>
    /\ mp_out = None
    /\ mp_again = None
    /\ mp_params = None
    /\ fv_value = None
    /\ fv_type = <<>>
    /\ fv_out = None

\* no JavaExecutor call is under way
ExecutorIdle ==
    /\ ex_config = None
    /\ ex_markers = {}
    /\ ex_output = {}
    /\ ex_cmd = <<>>
    /\ ex_process = "none"
    /\ ex_returncode = None
    /\ ex_result = None
    /\ ex_before = {}
    /\ ex_launches = 0
    /\ ex_frame = None
    /\ ex_disk = [files |-> <<>>, dirs |-> {}]
    /\ ex_returned = None

\* no TradeSurveillanceAgent operation is under way
AgentIdle ==
    /\ ag_call = None
    /\ ag_trace = <<>>
    /\ ag_response = None

----------------------------------------------------------------------------
(* Python str operations                                                   *)

UpperAlpha ==
    <<"A","B","C","D","E","F","G","H","I","J","K","L","M",
      "N","O","P","Q","R","S","T","U","V","W","X","Y","Z">>

LowerAlpha ==
    <<"a","b","c","d","e","f","g","h","i","j","k","l","m",
      "n","o","p","q","r","s","t","u","v","w","x","y","z">>

Digits == {"0","1","2","3","4","5","6","7","8","9"}

Range(f) == {f[i] : i \in DOMAIN f}

\* least and greatest element of a non-empty set of positions
Min(S) == CHOOSE x \in S : \A y \in S : x <= y

Max(S) == CHOOSE x \in S : \A y \in S : y <= x

SpaceChars == {" ", "\t", "\n", "\r"}

WordChars == Range(UpperAlpha) \cup Range(LowerAlpha) \cup Digits \cup {"_"}

\* regex \s
IsSpace(c) == c \in SpaceChars

\* regex \w
IsWord(c) == c \in WordChars

\* the lower-case letter of each upper-case letter
LowerOf == [c \in Range(UpperAlpha) |->
               LowerAlpha[CHOOSE i \in 1..26 : UpperAlpha[i] = c]]

LowerChar(c) == IF c \in DOMAIN LowerOf THEN LowerOf[c] ELSE c

\* str.lower()
Lower(s) == [i \in 1..Len(s) |-> LowerChar(s[i])]

\* str.replace('_', ' ')
ReplaceUnderscore(s) == [i \in 1..Len(s) |-> IF s[i] = "_" THEN " " ELSE s[i]]

\* `p in s` for two str
Contains(s, p) ==
    \E i \in 0..(Len(s) - Len(p)) : SubSeq(s, i + 1, i + Len(p)) = p

\* str.strip()
Strip(s) ==
    IF \A i \in 1..Len(s) : IsSpace(s[i])
    THEN <<>>
    ELSE LET a == CHOOSE i \in 1..Len(s) :
                      ~IsSpace(s[i]) /\ \A j \in 1..(i - 1) : IsSpace(s[j])
             b == CHOOSE i \in 1..Len(s) :
                      ~IsSpace(s[i]) /\ \A j \in (i + 1)..Len(s) : IsSpace(s[j])
         IN  SubSeq(s, a, b)

\* truthiness of an Optional[str] criteria field
Truthy(x) == x.t = "str" /\ x.v # <<>>

\* dict.get(key, default) on a metadata mapping (a function on its keys)
Get(metadata, key, default) ==
    IF key \in DOMAIN metadata THEN metadata[key] ELSE default

----------------------------------------------------------------------------
(* _calculate_relevance.  The outcome is [raised, score]: raised is TRUE   *)
(* when the Python code raises (AttributeError of .lower() on a non-str,   *)
(* TypeError of iterating a non-iterable).                                 *)

kREPORT_TYPE == <<"r","e","p","o","r","t","_","t","y","p","e">>

kDOMAIN == <<"d","o","m","a","i","n">>

kCAPABILITY == <<"c","a","p","a","b","i","l","i","t","y">>

kTAGS == <<"t","a","g","s">>

Ok(n) == [raised |-> FALSE, score |-> n]

Raise == [raised |-> TRUE, score |-> 0]

\* one iteration of `for keyword in criteria.keywords`
KeywordHit(keyword, content_lower) ==
    \/ Contains(content_lower, ReplaceUnderscore(Lower(keyword)))
    \/ Contains(content_lower, Lower(keyword))

RECURSIVE KeywordScore(_, _)
KeywordScore(keywords, content_lower) ==
    IF keywords = <<>> THEN 0
    ELSE (IF KeywordHit(Head(keywords), content_lower) THEN 1 ELSE 0)
         + KeywordScore(Tail(keywords), content_lower)

\* the two report_type weights exchanged
ReportTypeScoreSwapped(metadata, content_lower, c) ==
    IF ~Truthy(c.report_type) THEN Ok(0)
    ELSE LET rt  == Lower(c.report_type.v)
             inT == IF Contains(content_lower, rt) THEN 3 ELSE 0
             m   == Get(metadata, kREPORT_TYPE, Str(<<>>))
         IN  IF m.t # "str" THEN Raise
             ELSE Ok(inT + (IF Lower(m.v) = rt THEN 2 ELSE 0))

\* `if criteria.report_type:` block
ReportTypeScore(metadata, content_lower, c) ==
    IF ~Truthy(c.report_type) THEN Ok(0)
    ELSE LET rt  == Lower(c.report_type.v)
             inT == IF Contains(content_lower, rt) THEN 2 ELSE 0
             m   == Get(metadata, kREPORT_TYPE, Str(<<>>))
         IN  IF m.t # "str" THEN Raise
             ELSE Ok(inT + (IF Lower(m.v) = rt THEN 3 ELSE 0))

\* `if criteria.domain:` block
DomainScore(metadata, c) ==
    IF ~Truthy(c.domain) THEN Ok(0)
    ELSE LET m == Get(metadata, kDOMAIN, Str(<<>>))
         IN  IF m.t # "str" THEN Raise
             ELSE Ok(IF Lower(m.v) = Lower(c.domain.v) THEN 2 ELSE 0)

\* `if criteria.capability:` block
CapabilityScore(metadata, c) ==
    IF ~Truthy(c.capability) THEN Ok(0)
    ELSE LET capability == Get(metadata, kCAPABILITY, Str(<<>>))
             want       == Lower(c.capability.v)
         IN  IF capability.t = "list"
             THEN IF \E i \in DOMAIN capability.v : capability.v[i].t # "str"
                  THEN Raise
                  ELSE Ok(IF \E i \in DOMAIN capability.v :
                                 Lower(capability.v[i].v) = want
                          THEN 2 ELSE 0)
             ELSE IF capability.t # "str" THEN Raise
             ELSE Ok(IF Lower(capability.v) = want THEN 2 ELSE 0)

\* one iteration of `for tag in criteria.tags`
TagHit(metadata, tag) ==
    LET got       == Get(metadata, kTAGS, Lst(<<>>))
        file_tags == IF got.t = "str" THEN Lst(<<got>>) ELSE got
    IN  IF file_tags.t # "list" THEN Raise
        ELSE IF \E i \in DOMAIN file_tags.v : file_tags.v[i].t # "str"
        THEN Raise
        ELSE Ok(IF \E i \in DOMAIN file_tags.v :
                       Lower(file_tags.v[i].v) = Lower(tag)
                THEN 1 ELSE 0)

RECURSIVE TagScore(_, _)
TagScore(metadata, tags) ==
    IF tags = <<>> THEN Ok(0)
    ELSE LET h == TagHit(metadata, Head(tags))
             r == TagScore(metadata, Tail(tags))
         IN  IF h.raised \/ r.raised THEN Raise ELSE Ok(h.score + r.score)

CalculateRelevance(metadata, content, c) ==
    LET content_lower == Lower(content)
        kw  == KeywordScore(c.keywords, content_lower)
        rt  == ReportTypeScore(metadata, content_lower, c)
        dm  == DomainScore(metadata, c)
        cp  == CapabilityScore(metadata, c)
        tg  == TagScore(metadata, c.tags)
    IN  IF rt.raised \/ dm.raised \/ cp.raised \/ tg.raised THEN Raise
        ELSE Ok(kw + rt.score + dm.score + cp.score + tg.score)

----------------------------------------------------------------------------
(* Regular expressions of ConfigSearcher, matched the way Python's re      *)
(* does (leftmost match, greedy and lazy quantifiers, backtracking).  A    *)
(* match attempt returns [ok, key, value, end]: end is the position after  *)
(* the match.                                                              *)

NoMatch == [ok |-> FALSE, key |-> <<>>, value |-> <<>>, end |-> 0]

\* the literal lit occurs in s at position i
StartsWith(s, i, lit) ==
    /\ i >= 1
    /\ i + Len(lit) - 1 <= Len(s)
    /\ SubSeq(s, i, i + Len(lit) - 1) = lit

\* membership of a character in a character class of the patterns
InClass(class, c) ==
    CASE class = "\\s"    -> IsSpace(c)
      [] class = "\\w"    -> IsWord(c)
      [] class = "."      -> c # "\n"
      [] class = "[^\"]"  -> c # "\""
      [] class = "[\\w.]" -> IsWord(c) \/ c = "."
      [] class = "[^;]"   -> c # ";"

\* end of the longest run of characters of the class that starts at j
Span(s, j, class) ==
    CHOOSE e \in j..(Len(s) + 1) :
        /\ \A x \in j..(e - 1) : InClass(class, s[x])
        /\ (e = Len(s) + 1 \/ ~InClass(class, s[e]))

\* YML_METADATA_PATTERN = #\s*@(\w+):\s*(.+?)(?:\n|$)  attempted at i
YmlMetadataMatchAt(s, i) ==
    IF ~StartsWith(s, i, <<"#">>) THEN NoMatch
    ELSE LET at == Span(s, i + 1, "\\s")
         IN  IF ~StartsWith(s, at, <<"@">>) THEN NoMatch
             ELSE LET k1 == Span(s, at + 1, "\\w")
                  IN  IF k1 = at + 1 \/ ~StartsWith(s, k1, <<":">>) THEN NoMatch
                      ELSE LET v0 == k1 + 1
                               w1 == Span(s, v0, "\\s")
                               \* \s* is greedy and gives characters back
                               \* until (.+?) can start on a non-newline
                               starts == {p \in v0..w1 : p <= Len(s) /\ s[p] # "\n"}
                           IN  IF starts = {} THEN NoMatch
                               ELSE LET p == Max(starts)
                                        q == Span(s, p + 1, ".")
                                    IN  [ok    |-> TRUE,
                                         key   |-> SubSeq(s, at + 1, k1 - 1),
                                         value |-> SubSeq(s, p, q - 1),
                                         end   |-> IF q <= Len(s) THEN q + 1 ELSE q]

kMeta == <<"@","M","e","t","a">>

kData == <<"d","a","t","a">>

\* JAVA_METADATA_PATTERN = @Meta(?:data)?\s*\(\s*(\w+)\s*=\s*"([^"]+)"\s*\)
JavaMetadataMatchAt(s, i) ==
    IF ~StartsWith(s, i, kMeta) THEN NoMatch
    ELSE LET a0 == IF StartsWith(s, i + 5, kData) THEN i + 9 ELSE i + 5
             a1 == Span(s, a0, "\\s")
         IN  IF ~StartsWith(s, a1, <<"(">>) THEN NoMatch
             ELSE LET k0 == Span(s, a1 + 1, "\\s")
                      k1 == Span(s, k0, "\\w")
                      e0 == Span(s, k1, "\\s")
                  IN  IF k1 = k0 \/ ~StartsWith(s, e0, <<"=">>) THEN NoMatch
                      ELSE LET q0 == Span(s, e0 + 1, "\\s")
                               v1 == Span(s, q0 + 1, "[^\"]")
                               c0 == Span(s, v1 + 1, "\\s")
                           IN  IF \/ ~StartsWith(s, q0, <<"\"">>)
                                  \/ v1 = q0 + 1
                                  \/ ~StartsWith(s, v1, <<"\"">>)
                                  \/ ~StartsWith(s, c0, <<")">>)
                               THEN NoMatch
                               ELSE [ok    |-> TRUE,
                                     key   |-> SubSeq(s, k0, k1 - 1),
                                     value |-> SubSeq(s, q0 + 1, v1 - 1),
                                     end   |-> c0 + 1]

----------------------------------------------------------------------------
(* The remaining regular expressions of _parse_java_file.                  *)

kPackage == <<"p","a","c","k","a","g","e">>

kPublic == <<"p","u","b","l","i","c">>

kClass == <<"c","l","a","s","s">>

kVoid == <<"v","o","i","d">>

kTest == <<"@","T","e","s","t">>

\* package\s+([\w.]+);  attempted at i
PackageMatchAt(s, i) ==
    IF ~StartsWith(s, i, kPackage) THEN NoMatch
    ELSE LET n0 == Span(s, i + 7, "\\s")
             n1 == Span(s, n0, "[\\w.]")
         IN  IF n0 = i + 7 \/ n1 = n0 \/ ~StartsWith(s, n1, <<";">>) THEN NoMatch
             ELSE [ok |-> TRUE, key |-> <<>>, value |-> SubSeq(s, n0, n1 - 1),
                   end |-> n1 + 1]

\* class\s+(\w+)  attempted at i
ClassTailAt(s, i) ==
    IF ~StartsWith(s, i, kClass) THEN NoMatch
    ELSE LET n0 == Span(s, i + 5, "\\s")
             n1 == Span(s, n0, "\\w")
         IN  IF n0 = i + 5 \/ n1 = n0 THEN NoMatch
             ELSE [ok |-> TRUE, key |-> <<>>, value |-> SubSeq(s, n0, n1 - 1),
                   end |-> n1]

\* JAVA_CLASS_PATTERN = (?:public\s+)?class\s+(\w+)  attempted at i
JavaClassMatchAt(s, i) ==
    LET p0       == Span(s, i + 6, "\\s")
        prefixed == IF StartsWith(s, i, kPublic) /\ p0 > i + 6
                    THEN ClassTailAt(s, p0) ELSE NoMatch
    IN  IF prefixed.ok THEN prefixed ELSE ClassTailAt(s, i)

\* void\s+(\w+)\s*\(  attempted at i
VoidTailAt(s, i) ==
    IF ~StartsWith(s, i, kVoid) THEN NoMatch
    ELSE LET n0 == Span(s, i + 4, "\\s")
             n1 == Span(s, n0, "\\w")
             n2 == Span(s, n1, "\\s")
         IN  IF n0 = i + 4 \/ n1 = n0 \/ ~StartsWith(s, n2, <<"(">>) THEN NoMatch
             ELSE [ok |-> TRUE, key |-> <<>>, value |-> SubSeq(s, n0, n1 - 1),
                   end |-> n2 + 1]

\* (?:public\s+)?void\s+(\w+)\s*\(  attempted at i
MethodTailAt(s, i) ==
    LET p0       == Span(s, i + 6, "\\s")
        prefixed == IF StartsWith(s, i, kPublic) /\ p0 > i + 6
                    THEN VoidTailAt(s, p0) ELSE NoMatch
    IN  IF prefixed.ok THEN prefixed ELSE VoidTailAt(s, i)

\* JAVA_METHOD_PATTERN = @Test.*?(?:public\s+)?void\s+(\w+)\s*\(  with
\* re.DOTALL, attempted at i: .*? stops at the first place the rest matches
JavaMethodMatchAt(s, i) ==
    IF ~StartsWith(s, i, kTest) THEN NoMatch
    ELSE LET tails == {j \in (i + 5)..Len(s) : MethodTailAt(s, j).ok}
         IN  IF tails = {} THEN NoMatch
             ELSE MethodTailAt(s, Min(tails))

\* pattern.match(s, i - 1) for the compiled patterns, by name
MatchAt(pattern, s, i) ==
    CASE pattern = "YML_METADATA_PATTERN"  -> YmlMetadataMatchAt(s, i)
      [] pattern = "JAVA_METADATA_PATTERN" -> JavaMetadataMatchAt(s, i)
      [] pattern = "package"               -> PackageMatchAt(s, i)
      [] pattern = "JAVA_CLASS_PATTERN"    -> JavaClassMatchAt(s, i)
      [] pattern = "JAVA_METHOD_PATTERN"   -> JavaMethodMatchAt(s, i)

\* the match at the leftmost of starts, NoMatch when there is none
Leftmost(pattern, s, starts) ==
    IF starts = {} THEN NoMatch ELSE MatchAt(pattern, s, Min(starts))

\* pattern.search(s, i - 1): the leftmost match at or after position i
Search(pattern, s, i) ==
    Leftmost(pattern, s, {j \in i..Len(s) : MatchAt(pattern, s, j).ok})

\* pattern.finditer(s) from position i: the successive non-overlapping
\* matches, each the leftmost one at or after the end of the one before
RECURSIVE FindIter(_, _, _)
FindIterFrom(pattern, s, m) ==
    IF ~m.ok THEN <<>> ELSE <<m>> \o FindIter(pattern, s, m.end)

FindIter(pattern, s, i) == FindIterFrom(pattern, s, Search(pattern, s, i))

\* group 1 of each match, as str
Group1(ms) == [k \in 1..Len(ms) |-> Str(ms[k].value)]

\* JAVA_METHOD_PATTERN.findall(content): group 1 of the successive matches
JavaMethodFindAll(s, i) == Group1(FindIter("JAVA_METHOD_PATTERN", s, i))

----------------------------------------------------------------------------
(* The metadata loops of _parse_yml_file and _parse_java_file.             *)

\* YML_METADATA_PATTERN.finditer(content)
YmlFindIter(s, i) == FindIter("YML_METADATA_PATTERN", s, i)

\* JAVA_METADATA_PATTERN.finditer(content)
JavaFindIter(s, i) == FindIter("JAVA_METADATA_PATTERN", s, i)

\* the loop body without the isinstance(list) branch: a third value
\* nests the list built so far
AccumulateNested(metadata, m) ==
    LET key   == Lower(m.key)
        value == Str(Strip(m.value))
        new   == IF key \in DOMAIN metadata
                 THEN Lst(<<metadata[key], value>>)
                 ELSE value
    IN  [k \in DOMAIN metadata \cup {key} |-> IF k = key THEN new ELSE metadata[k]]

\* body of the `for match in ...finditer(content)` loops: one match
Accumulate(metadata, m) ==
    LET key   == Lower(m.key)
        value == Str(Strip(m.value))
        new   == IF key \in DOMAIN metadata
                 THEN IF metadata[key].t = "list"
                      THEN Lst(Append(metadata[key].v, value))
                      ELSE Lst(<<metadata[key], value>>)
                 ELSE value
    IN  [k \in DOMAIN metadata \cup {key} |-> IF k = key THEN new ELSE metadata[k]]

RECURSIVE AccumulateAll(_, _)
AccumulateAll(metadata, ms) ==
    IF ms = <<>> THEN metadata
    ELSE AccumulateAll(Accumulate(metadata, Head(ms)), Tail(ms))

EmptyDict == [k \in {} |-> None]

\* metadata after the directive-comment loop of _parse_yml_file
YmlDirectives(content) == AccumulateAll(EmptyDict, YmlFindIter(content, 1))

\* metadata after the annotation loop of _parse_java_file
JavaAnnotations(content) == AccumulateAll(EmptyDict, JavaFindIter(content, 1))

----------------------------------------------------------------------------
(* Files.  A candidate file is [path, readable, content, yaml]: readable   *)
(* is FALSE when open()/read() raises; yaml is what yaml.safe_load         *)
(* (PyYAML, an external library) makes of the content:                     *)
(*   [t |-> "error"]              it raises yaml.YAMLError                 *)
(*   None, Str(..), IntV(..), Lst(..)   a document that is not a mapping   *)
(*   [t |-> "dict", v |-> <<..>>] a mapping, as its <<key, value>> items   *)
(*                                in document order (keys are distinct)    *)
(* Java candidates carry yaml = None, which _parse_java_file never reads.  *)

YamlError == [t |-> "error"]

Dict(items) == [t |-> "dict", v |-> items]

kMETADATA == <<"m","e","t","a","d","a","t","a">>

kTEST_METHODS == <<"t","e","s","t","_","m","e","t","h","o","d","s">>

kUNKNOWN == <<"u","n","k","n","o","w","n">>

\* `key in d` for a dict given by its items
HasKey(d, key) == \E i \in DOMAIN d.v : d.v[i][1] = key

\* d[key]
Item(d, key) == d.v[CHOOSE i \in DOMAIN d.v : d.v[i][1] = key][2]

\* metadata[key] = value
SetItem(metadata, key, value) ==
    [k \in DOMAIN metadata \cup {key} |-> IF k = key THEN value ELSE metadata[k]]

\* outcome of a block that may raise: the metadata after it, or raised
Merged(metadata) == [raised |-> FALSE, metadata |-> metadata]

MergeRaised == [raised |-> TRUE, metadata |-> <<>>]

\* the merge with dict.setdefault: a key a directive gave keeps its value
RECURSIVE MergeItemsSetDefault(_, _)
MergeItemsSetDefault(metadata, items) ==
    IF items = <<>> THEN Merged(metadata)
    ELSE LET k == Head(items)[1]
             v == Head(items)[2]
         IN  IF k.t # "str" THEN MergeRaised
             ELSE IF Lower(k.v) \in DOMAIN metadata
             THEN MergeItemsSetDefault(metadata, Tail(items))
             ELSE MergeItemsSetDefault(SetItem(metadata, Lower(k.v), v), Tail(items))

\* `for k, v in yaml_content['metadata'].items(): metadata[k.lower()] = v`
\* over the remaining items; raises (AttributeError) when k is not a str
RECURSIVE MergeItems(_, _)
MergeItems(metadata, items) ==
    IF items = <<>> THEN Merged(metadata)
    ELSE LET k == Head(items)[1]
             v == Head(items)[2]
         IN  IF k.t # "str" THEN MergeRaised
             ELSE MergeItems(SetItem(metadata, Lower(k.v), v), Tail(items))

\* the inner try block of _parse_yml_file: only yaml.YAMLError is caught
\* there; .items() of a value that is not a mapping raises AttributeError
MergeYaml(metadata, yaml_content) ==
    IF yaml_content.t = "error" THEN Merged(metadata)
    ELSE IF ~(yaml_content.t = "dict" /\ yaml_content.v # <<>>) THEN Merged(metadata)
    ELSE IF ~HasKey(yaml_content, Str(kMETADATA)) THEN Merged(metadata)
    ELSE LET block == Item(yaml_content, Str(kMETADATA))
         IN  IF block.t # "dict" THEN MergeRaised
             ELSE MergeItems(metadata, block.v)

\* ConfigMatch (sql_query is not carried: no operation modelled here reads
\* it, and the SQL_BLOCK_PATTERN search that fills it cannot raise)
ConfigMatch(path, type, metadata, class, method, score, content) ==
    [file_path |-> path, file_type |-> type, metadata |-> metadata,
     java_class |-> class, java_method |-> method,
     relevance_score |-> score, content |-> content]

\* the handler re-raising instead of returning None
OnParseErrorReraised == [t |-> "raise"]

\* what `except Exception as e: print(...); return None` returns
OnParseError == None

\* _parse_yml_file from the relevance calculation on
YmlScored(f, metadata, score) ==
    IF score.raised THEN OnParseError
    ELSE ConfigMatch(f.path, "yml", metadata, None, None, score.score, f.content)

\* _parse_yml_file from the end of the inner try block on
YmlMerged(f, c, merged) ==
    IF merged.raised THEN OnParseError
    ELSE YmlScored(f, merged.metadata,
                   CalculateRelevance(merged.metadata, f.content, c))

\* _parse_yml_file
ParseYmlFile(f, c) ==
    IF ~f.readable THEN OnParseError
    ELSE YmlMerged(f, c, MergeYaml(YmlDirectives(f.content), f.yaml))

\* _parse_java_file from the relevance calculation on
JavaScored(f, metadata, java_class, java_method, score) ==
    IF score.raised THEN OnParseError
    ELSE ConfigMatch(f.path, "java", metadata, java_class, java_method,
                     score.score, f.content)

\* `if package_match: metadata['package'] = package_match.group(1)`
WithPackage(metadata, package_match) ==
    IF package_match.ok
    THEN SetItem(metadata, kPackage, Str(package_match.value))
    ELSE metadata

\* `if java_methods: metadata['test_methods'] = java_methods`
WithTestMethods(metadata, java_methods) ==
    IF java_methods # <<>>
    THEN SetItem(metadata, kTEST_METHODS, Lst(java_methods))
    ELSE metadata

\* _parse_java_file from the class and method extraction on
JavaExtracted(f, c, metadata, class_match, java_methods) ==
    JavaScored(f, metadata,
               IF class_match.ok THEN Str(class_match.value) ELSE None,
               IF java_methods # <<>> THEN java_methods[1] ELSE None,
               CalculateRelevance(metadata, f.content, c))

\* _parse_java_file from the end of the annotation loop on
JavaAnnotated(f, c, metadata, java_methods) ==
    JavaExtracted(f, c, WithTestMethods(metadata, java_methods),
                  Search("JAVA_CLASS_PATTERN", f.content, 1), java_methods)

\* _parse_java_file
ParseJavaFile(f, c) ==
    IF ~f.readable THEN OnParseError
    ELSE JavaAnnotated(f, c,
                       WithPackage(JavaAnnotations(f.content),
                                   Search("package", f.content, 1)),
                       JavaMethodFindAll(f.content, 1))

----------------------------------------------------------------------------
(* The files and words the directories are populated from.  Each yaml     *)
(* field is what PyYAML's safe_load returns for the content beside it.     *)

w_Domain == <<"D","o","m","a","i","n">>

w_OPS == <<"O","P","S">>

w_Wash_Trade == <<"W","a","s","h","_","T","r","a","d","e">>

w_domain == <<"d","o","m","a","i","n">>

w_name == <<"n","a","m","e">>

w_ops == <<"o","p","s">>

w_owner == <<"o","w","n","e","r">>

w_risk == <<"r","i","s","k">>

w_spoofing == <<"s","p","o","o","f","i","n","g">>

w_trade_surveillance == <<"t","r","a","d","e","_","s","u","r","v","e","i","l","l","a","n","c","e">>

w_wash == <<"w","a","s","h">>

w_wash_trade == <<"w","a","s","h","_","t","r","a","d","e">>

\* a directive and a body word (spec 8, property 5)
YmlWashTrade ==
    [readable |-> TRUE,
     content  |->
       <<"#"," ","@","r","e","p","o","r","t","_","t","y","p","e",":"," ","w",
         "a","s","h","_","t","r","a","d","e","\n","n","a","m","e",":"," ","w",
         "a","s","h","\n">>,
     yaml     |-> Dict(<<<<Str(w_name), Str(w_wash)>>>>)]

\* a directive key repeated in another case, overridden by the block
YmlBlockWins ==
    [readable |-> TRUE,
     content  |->
       <<"#"," ","@","D","o","m","a","i","n",":"," ","o","p","s","\n","#"," ",
         "@","d","o","m","a","i","n",":"," ","r","i","s","k","\n","m","e","t",
         "a","d","a","t","a",":","\n"," "," ","D","o","m","a","i","n",":"," ",
         "r","i","s","k","\n"," "," ","o","w","n","e","r",":"," ","o","p","s",
         "\n">>,
     yaml     |-> Dict(<<<<Str(kMETADATA), Dict(<<<<Str(w_Domain), Str(w_risk)>>, <<Str(w_owner), Str(w_ops)>>>>)>>>>)]

\* report_type given twice: a list under report_type
YmlTwoTypes ==
    [readable |-> TRUE,
     content  |->
       <<"#"," ","@","r","e","p","o","r","t","_","t","y","p","e",":"," ","w",
         "a","s","h","_","t","r","a","d","e","\n","#"," ","@","r","e","p","o",
         "r","t","_","t","y","p","e",":"," ","s","p","o","o","f","i","n","g",
         "\n">>,
     yaml     |-> None]

\* the metadata field is a scalar, not a mapping
YmlScalarBlock ==
    [readable |-> TRUE,
     content  |->
       <<"#"," ","@","d","o","m","a","i","n",":"," ","o","p","s","\n","m","e",
         "t","a","d","a","t","a",":"," ","w","a","s","h","\n">>,
     yaml     |-> Dict(<<<<Str(kMETADATA), Str(w_wash)>>>>)]

\* one key three times, in two cases, and a body PyYAML rejects
YmlBroken ==
    [readable |-> TRUE,
     content  |->
       <<"#","@","t","a","g","s",":"," ","w","a","s","h","\n","#"," ","@","T",
         "a","g","s",":"," "," ","s","p","o","o","f","i","n","g"," ","\n","#",
         " ","@","t","a","g","s",":"," ","r","i","s","k","\n","w","a","s","h",
         ":"," ","[","\n">>,
     yaml     |-> YamlError]

\* two block keys that differ only in case
YmlCaseClash ==
    [readable |-> TRUE,
     content  |->
       <<"m","e","t","a","d","a","t","a",":","\n"," "," ","D","o","m","a","i",
         "n",":"," ","o","p","s","\n"," "," ","d","o","m","a","i","n",":"," ",
         "r","i","s","k","\n">>,
     yaml     |-> Dict(<<<<Str(kMETADATA), Dict(<<<<Str(w_Domain), Str(w_ops)>>, <<Str(w_domain), Str(w_risk)>>>>)>>>>)]

\* a block key that is not a string
YmlIntKey ==
    [readable |-> TRUE,
     content  |->
       <<"#"," ","@","t","a","g","s",":"," ","r","i","s","k","\n","m","e","t",
         "a","d","a","t","a",":","\n"," "," ","1",":"," ","w","a","s","h","\n">>,
     yaml     |-> Dict(<<<<Str(kMETADATA), Dict(<<<<IntV(1), Str(w_wash)>>>>)>>>>)]

\* a file whose open() or read() raises
YmlUnreadable ==
    [readable |-> FALSE,
     content  |->
       <<>>,
     yaml     |-> None]

\* annotations (one key three times, in two cases), package, class, two tests
JavaWashTest ==
    [readable |-> TRUE,
     content  |->
       <<"p","a","c","k","a","g","e"," ","c","o","m",".","x",";","\n","@","M",
         "e","t","a","d","a","t","a","(","r","e","p","o","r","t","_","t","y",
         "p","e"," ","="," ","\"","w","a","s","h","_","t","r","a","d","e","\"",
         ")","\n","@","M","e","t","a","(","t","a","g","s","=","\"","w","a","s",
         "h","\"",")","\n","@","M","e","t","a","("," ","T","a","g","s"," ","=",
         " ","\""," ","r","i","s","k"," ","\""," ",")","\n","@","M","e","t",
         "a","(","t","a","g","s","=","\"","o","p","s","\"",")","\n","p","u",
         "b","l","i","c"," ","c","l","a","s","s"," ","W","a","s","h","T","e",
         "s","t"," ","{","\n","@","T","e","s","t","\n","p","u","b","l","i","c",
         " ","v","o","i","d"," ","t","e","s","t","W","a","s","h","(",")"," ",
         "{","}","\n","@","T","e","s","t"," ","v","o","i","d"," ","t","w","o",
         " ","(",")"," ","{","}","\n","}","\n">>,
     yaml     |-> None]

\* domain annotated twice: a list under domain
JavaTwoDomains ==
    [readable |-> TRUE,
     content  |->
       <<"@","M","e","t","a","(","d","o","m","a","i","n","=","\"","o","p","s",
         "\"",")","\n","@","M","e","t","a","(","d","o","m","a","i","n","=",
         "\"","r","i","s","k","\"",")","\n","c","l","a","s","s"," ","S","p",
         "o","o","f","T","e","s","t"," ","{"," ","@","T","e","s","t"," ","v",
         "o","i","d"," ","w","a","s","h","(",")"," ","{","}"," ","}","\n">>,
     yaml     |-> None]

\* a file whose open() or read() raises
JavaUnreadable ==
    [readable |-> FALSE,
     content  |->
       <<>>,
     yaml     |-> None]

\* surveillance_terms of EmailParser.extract_keywords
surveillance_terms ==
    <<<<"w","a","s","h"," ","t","r","a","d","e">>,
      <<"s","p","o","o","f","i","n","g">>,
      <<"l","a","y","e","r","i","n","g">>,
      <<"f","r","o","n","t"," ","r","u","n","n","i","n","g">>,
      <<"i","n","s","i","d","e","r">>,
      <<"m","a","n","i","p","u","l","a","t","i","o","n">>,
      <<"a","l","e","r","t">>,
      <<"v","i","o","l","a","t","i","o","n">>,
      <<"c","o","m","p","l","i","a","n","c","e">>,
      <<"s","u","s","p","i","c","i","o","u","s">>,
      <<"p","a","t","t","e","r","n">>,
      <<"d","e","t","e","c","t","i","o","n">>,
      <<"t","h","r","e","s","h","o","l","d">>,
      <<"v","o","l","u","m","e">>,
      <<"p","r","i","c","e">>>>

BodyWashTrade ==
    <<"P","l","e","a","s","e"," ","r","u","n"," ","t","h","e"," ","W","a","s","h"," ","T","r","a","d","e",
      " ","r","e","p","o","r","t">>

BodySpoofing ==
    <<"s","p","o","o","f","i","n","g"," ","a","l","e","r","t">>

BodyPlain ==
    <<"h","e","l","l","o">>

YmlCorpus == {YmlWashTrade, YmlBlockWins, YmlTwoTypes, YmlScalarBlock, YmlBroken, YmlCaseClash, YmlIntKey, YmlUnreadable}

JavaCorpus == {JavaWashTest, JavaTwoDomains, JavaUnreadable}

----------------------------------------------------------------------------
(* Bounds and inputs                                                       *)

MaxYml == 2

MaxJava == 1

MaxKeywords == 2

MaxTags == 2

\* the sequences over S of length at most n
SeqUpTo(S, n) == UNION {[1..k -> S] : k \in 0..n}

SearchCriteria(keywords, report_type, domain, capability, tags) ==
    [keywords |-> keywords, report_type |-> report_type, domain |-> domain,
     capability |-> capability, tags |-> tags]

\* SearchCriteria(): every field at its default
DefaultCriteria == SearchCriteria(<<>>, None, None, None, <<>>)

\* a directory that exists, with what rglob yields for each pattern in order
Dir(yml, yaml, java) == [exists |-> TRUE, yml |-> yml, yaml |-> yaml, java |-> java]

MissingDir == [exists |-> FALSE, yml |-> <<>>, yaml |-> <<>>, java |-> <<>>]

\* the files of one rglob, each under its own path
Place(bodies, dir, glob) ==
    [i \in 1..Len(bodies) |->
        [path |-> <<dir, glob, i>>, readable |-> bodies[i].readable,
         content |-> bodies[i].content, yaml |-> bodies[i].yaml]]

Layouts == 1..3

\* three arrangements of the same files over the configured directories
ConfigLayout(l, ys) ==
    CASE l = 1 -> <<Dir(Place(ys, "configs", "yml"), <<>>, <<>>), MissingDir>>
      [] l = 2 -> <<MissingDir, Dir(<<>>, Place(ys, "config", "yaml"), <<>>)>>
      [] l = 3 -> <<Dir(Place(IF ys = <<>> THEN <<>> ELSE <<Head(ys)>>,
                              "configs", "yml"), <<>>, <<>>),
                    Dir(Place(IF ys = <<>> THEN <<>> ELSE Tail(ys),
                              "config", "yml"), <<>>, <<>>)>>

JavaLayout(l, js) ==
    CASE l = 1 -> <<Dir(<<>>, <<>>, Place(js, "test", "java"))>>
      [] l = 2 -> <<MissingDir, Dir(<<>>, <<>>, Place(js, "tests", "java"))>>
      [] l = 3 -> <<Dir(<<>>, <<>>, Place(js, "test", "java")), MissingDir>>

\* the files the searched directories are populated from
SearchYmlPool == {YmlWashTrade, YmlScalarBlock, YmlUnreadable}

SearchJavaPool == {JavaWashTest, JavaUnreadable}

\* criteria the callers of search() pass
CriteriaPool ==
    { SearchCriteria(<<w_wash>>, Str(w_wash_trade), None, None, <<>>),
      SearchCriteria(<<w_wash>>, None, None, None, <<w_wash>>),
      SearchCriteria(<<w_spoofing>>, None, Str(w_OPS), None, <<w_OPS>>) }

\* criteria for the extraction of one file
ParseCriteria ==
    { SearchCriteria(k, r, d, None, t) :
        k \in {<<>>, <<w_wash>>},
        r \in {None, Str(w_wash_trade)},
        d \in {None, Str(w_OPS), Str(w_risk)},
        t \in {<<>>, <<w_wash>>} }

----------------------------------------------------------------------------
(* search(), _search_yml_files(), _search_java_files(), get_all_configs()  *)

\* the files the loop nest of _search_yml_files visits, in order
RECURSIVE YmlCandidates(_)
YmlCandidates(roots) ==
    IF roots = <<>> THEN <<>>
    ELSE (IF Head(roots).exists THEN Head(roots).yml \o Head(roots).yaml ELSE <<>>)
         \o YmlCandidates(Tail(roots))

\* the files the loop nest of _search_java_files visits, in order
RECURSIVE JavaCandidates(_)
JavaCandidates(roots) ==
    IF roots = <<>> THEN <<>>
    ELSE (IF Head(roots).exists THEN Head(roots).java ELSE <<>>)
         \o JavaCandidates(Tail(roots))

\* marks an exception that left a callee
Propagated == [t |-> "raise"]

\* the filter without its score test
KeepUnfiltered(match) == match # None

\* `if match and match.relevance_score > 0`
Keep(match) == match # None /\ match.relevance_score > 0

\* search() without its sort
SortSkipped(ms) == ms

\* list.sort(key=relevance_score, reverse=True) inserts one element: the
\* sort is stable, equal scores keep their order
SortInsert(sorted, m) ==
    LET before == {i \in 1..Len(sorted) : sorted[i].relevance_score >= m.relevance_score}
        n      == IF before = {} THEN 0 ELSE Max(before)
    IN  SubSeq(sorted, 1, n) \o <<m>> \o SubSeq(sorted, n + 1, Len(sorted))

RECURSIVE SortByScore(_)
SortByScore(ms) ==
    IF ms = <<>> THEN <<>>
    ELSE SortInsert(SortByScore(SubSeq(ms, 1, Len(ms) - 1)), ms[Len(ms)])

\* the grouping loop of get_all_configs: [raised, dict]; a list is
\* unhashable, so `report_type not in organized` raises TypeError on it
RECURSIVE Organize(_, _)
Organize(organized, all_matches) ==
    IF all_matches = <<>> THEN [raised |-> FALSE, dict |-> organized]
    ELSE LET match       == Head(all_matches)
             report_type == Get(match.metadata, kREPORT_TYPE, Str(kUNKNOWN))
         IN  IF report_type.t \in {"list", "dict"}
             THEN [raised |-> TRUE, dict |-> organized]
             ELSE LET group == IF report_type \in DOMAIN organized
                               THEN organized[report_type] ELSE <<>>
                  IN  Organize(SetItem(organized, report_type, Append(group, match)),
                               Tail(all_matches))

NotParsed == [t |-> "none"]

\* one extraction: the file, the metadata local at the end of the annotation
\* loop (empty when the read failed before it) and what was returned
Parsed(f, annotated, match) ==
    [t |-> "parsed", file |-> f, annotated |-> annotated, match |-> match]

Init ==
    /\ \E l \in Layouts, ys \in SeqUpTo(SearchYmlPool, MaxYml),
          js \in SeqUpTo(SearchJavaPool, MaxJava) :
          /\ config_roots = ConfigLayout(l, ys)
          /\ java_roots = JavaLayout(l, js)
    /\ criteria = DefaultCriteria
    /\ mode = "none"
    /\ pc = "idle"
    /\ cursor = 0
    /\ matches = <<>>
    /\ parsed = NotParsed
    /\ result = <<>>
    /\ raised = FALSE
    /\ sc_meta = EmptyDict
    /\ sc_text = <<>>
    /\ sc_out = Ok(0)
    /\ ModifierIdle
    /\ ExecutorIdle /\ AgentIdle

\* a caller enters search(criteria, base_path)
SearchCall ==
    /\ pc = "idle"
    /\ \E c \in CriteriaPool : criteria' = c
    /\ mode' = "search"
    /\ pc' = "yml"
    /\ cursor' = 1
    /\ matches' = <<>>
    /\ UNCHANGED <<config_roots, java_roots, parsed, result, raised,
                   sc_meta, sc_text, sc_out>>
    /\ UNCHANGED <<modifierVars, executorVars, agentVars>>

\* a caller enters get_all_configs(base_path), which calls
\* search(SearchCriteria(), base_path)
GetAllConfigsCall ==
    /\ pc = "idle"
    /\ criteria' = DefaultCriteria
    /\ mode' = "get_all_configs"
    /\ pc' = "yml"
    /\ cursor' = 1
    /\ matches' = <<>>
    /\ UNCHANGED <<config_roots, java_roots, parsed, result, raised,
                   sc_meta, sc_text, sc_out>>
    /\ UNCHANGED <<modifierVars, executorVars, agentVars>>

\* what one iteration of a candidate loop does with the parse outcome
Visit(match) ==
    /\ IF match = Propagated
       THEN /\ raised' = TRUE
            /\ pc' = "done"
            /\ UNCHANGED <<matches, cursor>>
       ELSE /\ matches' = IF Keep(match) THEN Append(matches, match) ELSE matches
            /\ cursor' = cursor + 1
            /\ UNCHANGED <<pc, raised>>
    /\ UNCHANGED <<criteria, config_roots, java_roots, mode, parsed, result,
                   sc_meta, sc_text, sc_out>>
    /\ UNCHANGED <<modifierVars, executorVars, agentVars>>

\* one iteration of the rglob loops of _search_yml_files
SearchYmlStep ==
    /\ pc = "yml"
    /\ cursor <= Len(YmlCandidates(config_roots))
    /\ LET f == YmlCandidates(config_roots)[cursor]
       IN  Visit(ParseYmlFile(f, criteria))

\* _search_yml_files returns; search() extends matches and goes on
SearchYmlReturn ==
    /\ pc = "yml"
    /\ cursor > Len(YmlCandidates(config_roots))
    /\ pc' = "java"
    /\ cursor' = 1
    /\ UNCHANGED <<criteria, config_roots, java_roots, mode, matches, parsed,
                   result, raised, sc_meta, sc_text, sc_out>>
    /\ UNCHANGED <<modifierVars, executorVars, agentVars>>

\* one iteration of the rglob loop of _search_java_files
SearchJavaStep ==
    /\ pc = "java"
    /\ cursor <= Len(JavaCandidates(java_roots))
    /\ LET f == JavaCandidates(java_roots)[cursor]
       IN  Visit(ParseJavaFile(f, criteria))

\* search() sorts and returns to its caller
SearchReturn ==
    /\ pc = "java"
    /\ cursor > Len(JavaCandidates(java_roots))
    /\ mode = "search"
    /\ matches' = SortByScore(matches)
    /\ result' = matches'
    /\ pc' = "done"
    /\ UNCHANGED <<criteria, config_roots, java_roots, mode, cursor, parsed,
                   raised, sc_meta, sc_text, sc_out>>
    /\ UNCHANGED <<modifierVars, executorVars, agentVars>>

\* search() sorts and returns into get_all_configs, which groups the
\* matches by report_type and returns
GetAllConfigsReturn ==
    /\ pc = "java"
    /\ cursor > Len(JavaCandidates(java_roots))
    /\ mode = "get_all_configs"
    /\ matches' = SortByScore(matches)
    /\ LET org == Organize(EmptyDict, matches')
       IN  /\ raised' = org.raised
           /\ result' = IF org.raised THEN <<>> ELSE org.dict
    /\ pc' = "done"
    /\ UNCHANGED <<criteria, config_roots, java_roots, mode, cursor, parsed,
                   sc_meta, sc_text, sc_out>>
    /\ UNCHANGED <<modifierVars, executorVars, agentVars>>

Next ==
    \/ SearchCall
    \/ GetAllConfigsCall
    \/ SearchYmlStep
    \/ SearchYmlReturn
    \/ SearchJavaStep
    \/ SearchReturn
    \/ GetAllConfigsReturn

Spec == Init /\ [][Next]_vars

----------------------------------------------------------------------------
(* The extraction of one file on its own: _parse_yml_file and              *)
(* _parse_java_file applied to one candidate and one criteria.             *)

ParseInit ==
    /\ \/ \E f \in YmlCorpus :
             /\ config_roots = <<Dir(Place(<<f>>, "configs", "yml"), <<>>, <<>>)>>
             /\ java_roots = <<>>
       \/ \E f \in JavaCorpus :
             /\ config_roots = <<>>
             /\ java_roots = <<Dir(<<>>, <<>>, Place(<<f>>, "test", "java"))>>
    /\ criteria = DefaultCriteria
    /\ mode = "parse"
    /\ pc = "parse_idle"
    /\ cursor = 0
    /\ matches = <<>>
    /\ parsed = NotParsed
    /\ result = <<>>
    /\ raised = FALSE
    /\ sc_meta = EmptyDict
    /\ sc_text = <<>>
    /\ sc_out = Ok(0)
    /\ ModifierIdle
    /\ ExecutorIdle /\ AgentIdle

\* _parse_yml_file(file_path, criteria)
ParseYmlCall ==
    /\ pc = "parse_idle"
    /\ YmlCandidates(config_roots) # <<>>
    /\ \E c \in ParseCriteria :
          LET f == YmlCandidates(config_roots)[1]
          IN  /\ criteria' = c
              /\ parsed' = Parsed(f, IF f.readable THEN YmlDirectives(f.content)
                                         ELSE EmptyDict,
                                      ParseYmlFile(f, c))
    /\ pc' = "parsed"
    /\ UNCHANGED <<config_roots, java_roots, mode, cursor, matches, result,
                   raised, sc_meta, sc_text, sc_out>>
    /\ UNCHANGED <<modifierVars, executorVars, agentVars>>

\* _parse_java_file(file_path, criteria)
ParseJavaCall ==
    /\ pc = "parse_idle"
    /\ JavaCandidates(java_roots) # <<>>
    /\ \E c \in ParseCriteria :
          LET f == JavaCandidates(java_roots)[1]
          IN  /\ criteria' = c
              /\ parsed' = Parsed(f, IF f.readable THEN JavaAnnotations(f.content)
                                         ELSE EmptyDict,
                                      ParseJavaFile(f, c))
    /\ pc' = "parsed"
    /\ UNCHANGED <<config_roots, java_roots, mode, cursor, matches, result,
                   raised, sc_meta, sc_text, sc_out>>
    /\ UNCHANGED <<modifierVars, executorVars, agentVars>>

ParseNext == ParseYmlCall \/ ParseJavaCall

SpecParse == ParseInit /\ [][ParseNext]_vars

----------------------------------------------------------------------------
(* _parse_yml_file applied to documents made of directive comment lines    *)
(* only: yaml.safe_load of such a document is None, so the metadata is     *)
(* what the directive loop built.                                          *)

MaxDirectiveLines == 3

DirectiveLines ==
    { <<"#"," ","@","a",":"," ","x","\n">>,
      <<"#"," ","@","b",":"," ","y","\n">>,
      <<"#"," ","@","a",":"," ","\n">>,
      <<"#","@","A",":"," "," ","z"," ","\n">> }

RECURSIVE DirectiveDocuments(_)
\* the documents of at most n of these lines
DirectiveDocuments(n) ==
    IF n = 0 THEN {<<>>}
    ELSE DirectiveDocuments(n - 1)
         \cup {d \o l : d \in DirectiveDocuments(n - 1), l \in DirectiveLines}

DirectiveCorpus ==
    { [readable |-> TRUE, content |-> d, yaml |-> None] :
        d \in DirectiveDocuments(MaxDirectiveLines) }

DirectivesInit ==
    /\ \E f \in DirectiveCorpus :
          config_roots = <<Dir(Place(<<f>>, "configs", "yml"), <<>>, <<>>)>>
    /\ java_roots = <<>>
    /\ criteria = DefaultCriteria
    /\ mode = "parse"
    /\ pc = "parse_idle"
    /\ cursor = 0
    /\ matches = <<>>
    /\ parsed = NotParsed
    /\ result = <<>>
    /\ raised = FALSE
    /\ sc_meta = EmptyDict
    /\ sc_text = <<>>
    /\ sc_out = Ok(0)
    /\ ModifierIdle
    /\ ExecutorIdle /\ AgentIdle

DirectivesNext == ParseYmlCall

SpecDirectives == DirectivesInit /\ [][DirectivesNext]_vars

----------------------------------------------------------------------------
(* The scorer on its own: _calculate_relevance applied to one metadata     *)
(* mapping, one text and one criteria, given directly or built by          *)
(* TradeSurveillanceAgent.process_inquiry.                                 *)

\* str.replace(' ', '_')
ReplaceSpace(s) == [i \in 1..Len(s) |-> IF s[i] = " " THEN "_" ELSE s[i]]

\* EmailParser.extract_keywords over the remaining terms
RECURSIVE ExtractFrom(_, _)
ExtractFrom(terms, text_lower) ==
    IF terms = <<>> THEN <<>>
    ELSE (IF Contains(text_lower, Head(terms))
          THEN <<ReplaceSpace(Head(terms))>> ELSE <<>>)
         \o ExtractFrom(Tail(terms), text_lower)

ExtractKeywords(text) == ExtractFrom(surveillance_terms, Lower(text))

\* step 2 of process_inquiry: the criteria built from a parsed inquiry
InquiryCriteria(raw_body, report_type) ==
    LET extracted == ExtractKeywords(raw_body)
        keywords  == IF Truthy(report_type)
                     THEN Append(extracted, report_type.v) ELSE extracted
    IN  SearchCriteria(keywords, report_type, Str(w_trade_surveillance), None, <<>>)

KeywordPool == {w_wash, w_Wash_Trade, w_risk}

TagPool == {w_wash, w_OPS}

ScoreCriteria ==
    { SearchCriteria(k, r, d, c, t) :
        k \in SeqUpTo(KeywordPool, MaxKeywords),
        r \in {None, Str(<<>>), Str(w_wash_trade), Str(w_OPS)},
        d \in {None, Str(w_OPS)},
        c \in {None, Str(w_risk)},
        t \in SeqUpTo(TagPool, MaxTags) }

\* the metadata and text of every corpus file that reaches the scorer
CorpusInputs ==
    {[meta |-> MergeYaml(YmlDirectives(f.content), f.yaml).metadata, text |-> f.content] :
        f \in {g \in YmlCorpus :
                 g.readable /\ ~MergeYaml(YmlDirectives(g.content), g.yaml).raised}}
    \cup
    {[meta |-> JavaAnnotations(f.content), text |-> f.content] :
        f \in {g \in JavaCorpus : g.readable}}

\* further metadata a structural block can produce
BlockInputs ==
    { [meta |-> (kREPORT_TYPE :> Str(w_Wash_Trade)) @@ (kDOMAIN :> Str(w_ops))
                @@ (kCAPABILITY :> Lst(<<Str(w_ops), Str(w_risk)>>))
                @@ (kTAGS :> Lst(<<Str(w_ops), Str(w_wash)>>)),
       text |-> w_Wash_Trade \o <<" ">> \o w_OPS],
      [meta |-> (kCAPABILITY :> Str(w_risk)) @@ (kTAGS :> Str(w_ops)),
       text |-> <<>>],
      [meta |-> (kTAGS :> IntV(1)) @@ (kCAPABILITY :> None), text |-> w_risk] }

ScoreInit ==
    /\ \E in \in CorpusInputs \cup BlockInputs :
          /\ sc_meta = in.meta
          /\ sc_text = in.text
    /\ criteria = DefaultCriteria
    /\ config_roots = <<>>
    /\ java_roots = <<>>
    /\ mode = "score"
    /\ pc = "score_idle"
    /\ cursor = 0
    /\ matches = <<>>
    /\ parsed = NotParsed
    /\ result = <<>>
    /\ raised = FALSE
    /\ sc_out = Ok(0)
    /\ ModifierIdle
    /\ ExecutorIdle /\ AgentIdle

\* _calculate_relevance(metadata, content, criteria)
ScoreCall ==
    /\ pc = "score_idle"
    /\ \E c \in ScoreCriteria :
          /\ criteria' = c
          /\ sc_out' = CalculateRelevance(sc_meta, sc_text, c)
    /\ pc' = "scored"
    /\ UNCHANGED <<config_roots, java_roots, mode, cursor, matches, parsed,
                   result, raised, sc_meta, sc_text>>
    /\ UNCHANGED <<modifierVars, executorVars, agentVars>>

\* the same with the criteria process_inquiry builds from an inquiry
InquiryScoreCall ==
    /\ pc = "score_idle"
    /\ \E body \in {BodyWashTrade, BodySpoofing, BodyPlain},
          rt \in {None, Str(w_wash_trade), Str(w_spoofing)} :
          /\ criteria' = InquiryCriteria(body, rt)
          /\ sc_out' = CalculateRelevance(sc_meta, sc_text, criteria')
    /\ pc' = "scored"
    /\ UNCHANGED <<config_roots, java_roots, mode, cursor, matches, parsed,
                   result, raised, sc_meta, sc_text>>
    /\ UNCHANGED <<modifierVars, executorVars, agentVars>>

ScoreNext == ScoreCall \/ InquiryScoreCall

SpecScore == ScoreInit /\ [][ScoreNext]_vars

----------------------------------------------------------------------------
(* JavaCodeModifier of src/src/java_executor.py.  Besides str, int, list   *)
(* and None a modification value can be a bool or a float; a float is      *)
(* carried as the text of its repr (3.14 is <<"3",".","1","4">>).          *)

BoolV(b) == [t |-> "bool", v |-> b]

FloatV(r) == [t |-> "float", v |-> r]

DigitSeq == <<"0","1","2","3","4","5","6","7","8","9">>

DigitValue(c) == (CHOOSE i \in 1..10 : DigitSeq[i] = c) - 1

RECURSIVE NatToStr(_)
NatToStr(n) ==
    IF n < 10 THEN <<DigitSeq[n + 1]>>
    ELSE NatToStr(n \div 10) \o <<DigitSeq[(n % 10) + 1]>>

\* str(n) for an int
IntToStr(n) == IF n < 0 THEN <<"-">> \o NatToStr(-n) ELSE NatToStr(n)

RECURSIVE StrToNat(_)
StrToNat(ds) ==
    IF ds = <<>> THEN 0
    ELSE StrToNat(SubSeq(ds, 1, Len(ds) - 1)) * 10 + DigitValue(ds[Len(ds)])

IsDigits(s) == s # <<>> /\ \A i \in 1..Len(s) : s[i] \in Digits

\* a numeral without its sign
Unsigned(s) ==
    IF s # <<>> /\ s[1] \in {"+", "-"} THEN SubSeq(s, 2, Len(s)) ELSE s

IsNegative(s) == s # <<>> /\ s[1] = "-"

\* the outcome of a conversion: raised, or the number / the text made
Converted(v) == [raised |-> FALSE, v |-> v]

ConvertRaised == [raised |-> TRUE, v |-> <<>>]

\* int(s) for a str without '_': surrounding whitespace, a sign, digits
IntOfStr(body) ==
    IF ~IsDigits(Unsigned(body)) THEN ConvertRaised
    ELSE Converted(IF IsNegative(body) THEN 0 - StrToNat(Unsigned(body))
                   ELSE StrToNat(Unsigned(body)))

\* the text before the '.' of a float repr
WholePart(r) ==
    IF \E i \in 1..Len(r) : r[i] = "."
    THEN SubSeq(r, 1, (CHOOSE i \in 1..Len(r) : r[i] = "." /\
                          \A j \in 1..(i - 1) : r[j] # ".") - 1)
    ELSE r

\* int(value): ValueError for a str that is no numeral, TypeError for a list
PyInt(value) ==
    CASE value.t = "int"   -> Converted(value.v)
      [] value.t = "bool"  -> Converted(IF value.v THEN 1 ELSE 0)
      [] value.t = "float" -> IntOfStr(WholePart(value.v))
      [] value.t = "str"   -> IntOfStr(Strip(value.v))
      [] OTHER             -> ConvertRaised

StripLeadingZeros(ds) ==
    IF \A i \in 1..Len(ds) : ds[i] = "0" THEN <<"0">>
    ELSE SubSeq(ds, CHOOSE i \in 1..Len(ds) :
                        ds[i] # "0" /\ \A j \in 1..(i - 1) : ds[j] = "0",
                Len(ds))

StripTrailingZeros(ds) ==
    IF \A i \in 1..Len(ds) : ds[i] = "0" THEN <<"0">>
    ELSE SubSeq(ds, 1, CHOOSE i \in 1..Len(ds) :
                           ds[i] # "0" /\ \A j \in (i + 1)..Len(ds) : ds[j] = "0")

\* the text after the '.' of a numeral ('' when there is none)
FractionPart(r) ==
    IF \E i \in 1..Len(r) : r[i] = "."
    THEN SubSeq(r, Len(WholePart(r)) + 2, Len(r))
    ELSE <<>>

\* str(float(s)) for a plain decimal numeral s of fewer than 16 digits that
\* is 0 or at least 0.0001 (repr then has no exponent): '007' -> '7.0',
\* '1.50' -> '1.5', '-.5' -> '-0.5'
FloatOfStr(body) ==
    IF \/ \E i \in 1..Len(Unsigned(body)) : Unsigned(body)[i] \notin Digits \cup {"."}
       \/ ~IsDigits(WholePart(Unsigned(body)) \o FractionPart(Unsigned(body)))
       \/ Cardinality({i \in 1..Len(body) : body[i] = "."}) > 1
    THEN ConvertRaised
    ELSE Converted((IF IsNegative(body) THEN <<"-">> ELSE <<>>)
                   \o StripLeadingZeros(WholePart(Unsigned(body)))
                   \o <<".">>
                   \o StripTrailingZeros(FractionPart(Unsigned(body))))

\* str(float(value))
PyFloat(value) ==
    CASE value.t = "float" -> Converted(value.v)
      [] value.t = "int"   -> Converted(IntToStr(value.v) \o <<".", "0">>)
      [] value.t = "bool"  -> Converted(IF value.v THEN <<"1", ".", "0">>
                                        ELSE <<"0", ".", "0">>)
      [] value.t = "str"   -> FloatOfStr(Strip(value.v))
      [] OTHER             -> ConvertRaised

\* `if value`
IsTrue(value) ==
    CASE value.t = "none"  -> FALSE
      [] value.t = "bool"  -> value.v
      [] value.t = "int"   -> value.v # 0
      [] value.t = "float" -> \E i \in 1..Len(value.v) :
                                  value.v[i] \notin {"0", ".", "-"}
      [] OTHER             -> value.v # <<>>

RECURSIVE Join(_, _)
\* sep.join(parts)
Join(sep, parts) ==
    IF parts = <<>> THEN <<>>
    ELSE IF Len(parts) = 1 THEN parts[1]
    ELSE parts[1] \o sep \o Join(sep, Tail(parts))

\* repr(s) of a str of letters, digits and punctuation other than quotes
\* and backslashes
ReprStr(s) == <<"'">> \o s \o <<"'">>

\* str(value), what an f-string puts for {value}; list elements are str
PyStr(value) ==
    CASE value.t = "str"   -> value.v
      [] value.t = "int"   -> IntToStr(value.v)
      [] value.t = "float" -> value.v
      [] value.t = "bool"  -> IF value.v THEN <<"T","r","u","e">>
                              ELSE <<"F","a","l","s","e">>
      [] value.t = "none"  -> <<"N","o","n","e">>
      [] value.t = "list"  ->
            <<"[">> \o Join(<<",", " ">>,
                            [i \in 1..Len(value.v) |-> ReprStr(value.v[i].v)])
                    \o <<"]">>

kString == <<"s","t","r","i","n","g">>
kInt == <<"i","n","t">>
kInteger == <<"i","n","t","e","g","e","r">>
kLong == <<"l","o","n","g">>
kDouble == <<"d","o","u","b","l","e">>
kFloat == <<"f","l","o","a","t">>
kBoolean == <<"b","o","o","l","e","a","n">>
kDate == <<"d","a","t","e">>
kList == <<"l","i","s","t">>
kNull == <<"n","u","l","l">>
kTrue == <<"t","r","u","e">>
kFalse == <<"f","a","l","s","e">>
kDateParse == <<"D","a","t","e",".","p","a","r","s","e","(">>
kArraysAsList == <<"A","r","r","a","y","s",".","a","s","L","i","s","t","(">>

\* f'"{value}"'
Quoted(value) == Converted(<<"\"">> \o PyStr(value) \o <<"\"">>)

\* a conversion followed by a literal suffix
WithSuffix(c, suffix) == IF c.raised THEN c ELSE Converted(c.v \o suffix)

\* str(int(value)) without the suffix
IntLiteralBare(c, suffix) ==
    IF c.raised THEN c ELSE Converted(IntToStr(c.v))

\* str(int(value)) followed by the suffix
IntLiteral(c, suffix) ==
    IF c.raised THEN c ELSE Converted(IntToStr(c.v) \o suffix)

\* _format_value(value, java_type): the Java literal, or raised when int()
\* or float() raises.  `in ('long')` and the three tests after it are
\* substring tests on a str; `in ('int', 'integer')` is a tuple membership.
FormatValue(value, java_type) ==
    IF value = None THEN Converted(kNull)
    ELSE IF Lower(java_type) = kString THEN Quoted(value)
    ELSE IF Lower(java_type) \in {kInt, kInteger}
         THEN IntLiteral(PyInt(value), <<>>)
    ELSE IF Contains(kLong, Lower(java_type))
         THEN IntLiteral(PyInt(value), <<"L">>)
    ELSE IF Contains(kDouble, Lower(java_type))
         THEN WithSuffix(PyFloat(value), <<"d">>)
    ELSE IF Contains(kFloat, Lower(java_type))
         THEN WithSuffix(PyFloat(value), <<"f">>)
    ELSE IF Contains(kBoolean, Lower(java_type))
         THEN Converted(IF IsTrue(value) THEN kTrue ELSE kFalse)
    ELSE IF Lower(java_type) = kDate
         THEN Converted(kDateParse \o <<"\"">> \o PyStr(value) \o <<"\"", ")">>)
    ELSE IF StartsWith(Lower(java_type), 1, kList) /\ value.t = "list"
         THEN Converted(kArraysAsList
                        \o Join(<<",", " ">>,
                                [i \in 1..Len(value.v) |->
                                    IF value.v[i] = None THEN kNull
                                    ELSE Quoted(value.v[i]).v])
                        \o <<")">>)
    ELSE Quoted(value)

----------------------------------------------------------------------------
(* The declaration patterns of JavaCodeModifier.  A match is               *)
(* [ok, start, end, head, name, var_type, var_name, value]: start..end-1   *)
(* is the matched text, head is group 1 (the annotation of the annotated   *)
(* patterns, the declaration up to the variable of the bare pattern).      *)

NotFound ==
    [ok |-> FALSE, start |-> 0, end |-> 0, head |-> <<>>, name |-> <<>>,
     var_type |-> <<>>, var_name |-> <<>>, value |-> <<>>]

Found(s, start, end, headEnd, n1, n2, t1, t2, v1, v2, l1) ==
    [ok |-> TRUE, start |-> start, end |-> end,
     head |-> SubSeq(s, start, headEnd - 1), name |-> SubSeq(s, n1, n2 - 1),
     var_type |-> SubSeq(s, t1, t2 - 1), var_name |-> SubSeq(s, v1, v2 - 1),
     value |-> SubSeq(s, l1, end - 2)]

\* the first alternative that matches, as backtracking tries them
FirstOk(a, b) == IF a.ok THEN a ELSE b

kParameter == <<"@","P","a","r","a","m","e","t","e","r">>
kPrivate == <<"p","r","i","v","a","t","e">>
kProtected == <<"p","r","o","t","e","c","t","e","d">>
kStatic == <<"s","t","a","t","i","c">>
kFinal == <<"f","i","n","a","l">>

\* \s*=\s*([^;]+);  with the '=' at position eq and the next ';' (or the
\* end of the text) at stop: the run between them is not empty, \s* takes
\* its leading whitespace and gives back one character when it is all
\* whitespace
LiteralAt(s, start, headEnd, n1, n2, t1, t2, v1, v2, eq, stop) ==
    IF ~StartsWith(s, eq, <<"=">>) \/ stop = eq + 1 \/ stop > Len(s)
    THEN NotFound
    ELSE Found(s, start, stop + 1, headEnd, n1, n2, t1, t2, v1, v2,
               IF Span(s, eq + 1, "\\s") < stop THEN Span(s, eq + 1, "\\s")
               ELSE stop - 1)

\* (\w+)\s+(\w+)\s*=\s*[^;]+;  with the type token at t1..t2-1 and the
\* variable token at v1..v2-1
TokensAt(s, start, headEnd, n1, n2, t1, t2, v1, v2) ==
    IF t2 = t1 \/ v1 = t2 \/ v2 = v1 THEN NotFound
    ELSE LiteralAt(s, start, headEnd, n1, n2, t1, t2, v1, v2,
                   Span(s, v2, "\\s"),
                   Span(s, Span(s, v2, "\\s") + 1, "[^;]"))

\* (\w+)\s+(\w+)\s*=\s*[^;]+;  attempted at j
DeclarationAt(s, start, headEnd, n1, n2, j) ==
    TokensAt(s, start, headEnd, n1, n2, j, Span(s, j, "\\w"),
             Span(s, Span(s, j, "\\w"), "\\s"),
             Span(s, Span(s, Span(s, j, "\\w"), "\\s"), "\\w"))

\* (?:private\s+)?  then the declaration, attempted at j
PrivateAt(s, start, headEnd, n1, n2, j) ==
    IF StartsWith(s, j, kPrivate) /\ Span(s, j + 7, "\\s") > j + 7
    THEN FirstOk(DeclarationAt(s, start, headEnd, n1, n2, Span(s, j + 7, "\\s")),
                 DeclarationAt(s, start, headEnd, n1, n2, j))
    ELSE DeclarationAt(s, start, headEnd, n1, n2, j)

\* \s*\)  then  \s*\n\s*  then the rest, with the closing quote at q
AfterNameAt(s, start, n1, q, close) ==
    IF ~StartsWith(s, q, <<"\"">>) \/ ~StartsWith(s, close, <<")">>)
       \/ \A x \in (close + 1)..(Span(s, close + 1, "\\s") - 1) : s[x] # "\n"
    THEN NotFound
    ELSE PrivateAt(s, start, close + 1, n1, q, Span(s, close + 1, "\\s"))

\* @Parameter\s*\(\s*"  attempted at i: the position after the quote, or 0
NameStart(s, i, paren) ==
    IF StartsWith(s, i, kParameter) /\ StartsWith(s, paren, <<"(">>)
       /\ StartsWith(s, Span(s, paren + 1, "\\s"), <<"\"">>)
    THEN Span(s, paren + 1, "\\s") + 1
    ELSE 0

\* PARAMETER_PATTERN attempted at i, the name being ([^"]+)
ParameterAt(s, i, n1) ==
    IF n1 = 0 \/ Span(s, n1, "[^\"]") = n1 THEN NotFound
    ELSE AfterNameAt(s, i, n1, Span(s, n1, "[^\"]"),
                     Span(s, Span(s, n1, "[^\"]") + 1, "\\s"))

ParameterMatchAt(s, i) ==
    ParameterAt(s, i, NameStart(s, i, Span(s, i + 10, "\\s")))

\* the pattern of _replace_parameter attempted at i, the name being
\* re.escape(param_name), which matches param_name literally
NamedParameterAt(param_name, s, i, n1) ==
    IF n1 = 0 \/ ~StartsWith(s, n1, param_name) THEN NotFound
    ELSE AfterNameAt(s, i, n1, n1 + Len(param_name),
                     Span(s, n1 + Len(param_name) + 1, "\\s"))

NamedParameterMatchAt(param_name, s, i) ==
    NamedParameterAt(param_name, s, i, NameStart(s, i, Span(s, i + 10, "\\s")))

\* (\w+)\s+NAME\s*=\s*[^;]+;  of _replace_variable with the type token at
\* t1..t2-1 and the variable expected at v1
VariableAt(var_name, s, start, t1, t2, v1) ==
    IF t2 = t1 \/ v1 = t2 \/ ~StartsWith(s, v1, var_name) THEN NotFound
    ELSE LiteralAt(s, start, v1 + Len(var_name), v1, v1 + Len(var_name),
                   t1, t2, v1, v1 + Len(var_name),
                   Span(s, v1 + Len(var_name), "\\s"),
                   Span(s, Span(s, v1 + Len(var_name), "\\s") + 1, "[^;]"))

TypeAt(var_name, s, start, j) ==
    VariableAt(var_name, s, start, j, Span(s, j, "\\w"),
               Span(s, Span(s, j, "\\w"), "\\s"))

\* (?:final\s+)?  then the type
FinalAt(var_name, s, start, j) ==
    IF StartsWith(s, j, kFinal) /\ Span(s, j + 5, "\\s") > j + 5
    THEN FirstOk(TypeAt(var_name, s, start, Span(s, j + 5, "\\s")),
                 TypeAt(var_name, s, start, j))
    ELSE TypeAt(var_name, s, start, j)

\* (?:static\s+)?  then the rest
StaticAt(var_name, s, start, j) ==
    IF StartsWith(s, j, kStatic) /\ Span(s, j + 6, "\\s") > j + 6
    THEN FirstOk(FinalAt(var_name, s, start, Span(s, j + 6, "\\s")),
                 FinalAt(var_name, s, start, j))
    ELSE FinalAt(var_name, s, start, j)

\* the length of the alternative of (?:private|public|protected) at i, or 0
ModifierLen(s, i) ==
    IF StartsWith(s, i, kPrivate) THEN 7
    ELSE IF StartsWith(s, i, kPublic) THEN 6
    ELSE IF StartsWith(s, i, kProtected) THEN 9
    ELSE 0

\* the pattern of _replace_variable attempted at i
VariableMatchAt(var_name, s, i) ==
    IF ModifierLen(s, i) > 0
    THEN FirstOk(StaticAt(var_name, s, i, Span(s, i + ModifierLen(s, i), "\\s")),
                 StaticAt(var_name, s, i, Span(s, i, "\\s")))
    ELSE StaticAt(var_name, s, i, Span(s, i, "\\s"))

\* the match at the greatest position that has one
LastFound(param_name, s, starts, annotated) ==
    IF starts = {} THEN NotFound
    ELSE IF annotated THEN NamedParameterMatchAt(param_name, s, Max(starts))
    ELSE VariableMatchAt(param_name, s, Max(starts))

\* pattern.search(content): the match at the least position that has one
FirstFound(param_name, s, starts, annotated) ==
    IF starts = {} THEN NotFound
    ELSE IF annotated THEN NamedParameterMatchAt(param_name, s, Min(starts))
    ELSE VariableMatchAt(param_name, s, Min(starts))

SearchParameter(param_name, s) ==
    FirstFound(param_name, s,
               {i \in 1..Len(s) : NamedParameterMatchAt(param_name, s, i).ok},
               TRUE)

SearchVariable(var_name, s) ==
    FirstFound(var_name, s,
               {i \in 1..Len(s) : VariableMatchAt(var_name, s, i).ok},
               FALSE)

\* a character put before the text of an outcome
Prefixed(c, r) == IF r.raised THEN r ELSE Converted(c \o r.v)

EscapeOf ==
    [c \in {"n", "t", "r", "\\"} |->
        CASE c = "n" -> "\n" [] c = "t" -> "\t" [] c = "r" -> "\r"
          [] c = "\\" -> "\\"]

RECURSIVE Expand(_, _)
\* the escape at position b of the template r, b being its first backslash
ExpandAt(r, groups, b) ==
    IF b = Len(r) THEN ConvertRaised
    ELSE IF r[b + 1] \in DOMAIN EscapeOf
         THEN Prefixed(SubSeq(r, 1, b - 1) \o <<EscapeOf[r[b + 1]]>>,
                       Expand(SubSeq(r, b + 2, Len(r)), groups))
    ELSE IF r[b + 1] \in Digits
         THEN IF DigitValue(r[b + 1]) \in 1..Len(groups)
              THEN Prefixed(SubSeq(r, 1, b - 1) \o groups[DigitValue(r[b + 1])],
                            Expand(SubSeq(r, b + 2, Len(r)), groups))
              ELSE ConvertRaised
    ELSE IF r[b + 1] \in Range(UpperAlpha) \cup Range(LowerAlpha)
         THEN ConvertRaised
    ELSE Prefixed(SubSeq(r, 1, b + 1), Expand(SubSeq(r, b + 2, Len(r)), groups))

\* The replacement argument of pattern.sub is a template: a backslash
\* starts an escape.  \\ \n \t \r give one character, \1..\9 the text of
\* a group (re.error when the pattern has no such group), a backslash before
\* any other ASCII letter or at the end is re.error, before any other
\* character it stays.  (The templates of the model hold no \0, no
\* two-digit reference and no \a \b \f \v \g.)
Expand(r, groups) ==
    IF \A i \in 1..Len(r) : r[i] # "\\" THEN Converted(r)
    ELSE ExpandAt(r, groups, Min({i \in 1..Len(r) : r[i] = "\\"}))

\* pattern.sub(replacement, content, count=1) for the match m
Substituted(content, m, expanded) ==
    IF expanded.raised THEN ConvertRaised
    ELSE Converted(SubSeq(content, 1, m.start - 1) \o expanded.v
                   \o SubSeq(content, m.end, Len(content)))

kIndentPrivate == <<"\n", " ", " ", " ", " ", "p","r","i","v","a","t","e", " ">>

\* lines 94-99 of _replace_parameter for a match m
ParameterRewritten(content, m, formatted_value) ==
    IF formatted_value.raised THEN ConvertRaised
    ELSE Substituted(content, m,
                     Expand(m.head \o kIndentPrivate \o m.var_type \o <<" ">>
                            \o m.var_name \o <<" ", "=", " ">>
                            \o formatted_value.v \o <<";">>,
                            <<m.head, m.var_type, m.var_name>>))

ReplaceParameterAt(content, m, new_value) ==
    IF ~m.ok THEN Converted(content)
    ELSE ParameterRewritten(content, m, FormatValue(new_value, m.var_type))

\* _replace_parameter(content, param_name, new_value)
ReplaceParameter(content, param_name, new_value) ==
    ReplaceParameterAt(content, SearchParameter(param_name, content), new_value)

\* lines 112-116 of _replace_variable for a match m
VariableRewritten(content, m, formatted_value) ==
    IF formatted_value.raised THEN ConvertRaised
    ELSE Substituted(content, m,
                     Expand(m.head \o <<" ", "=", " ">> \o formatted_value.v
                            \o <<";">>,
                            <<m.head, m.var_type>>))

\* lines 111-116 of _replace_variable with the value formatted before the
\* match is tested
ReplaceVariableAtUnguarded(content, m, new_value) ==
    IF FormatValue(new_value, m.var_type).raised THEN ConvertRaised
    ELSE IF ~m.ok THEN Converted(content)
    ELSE VariableRewritten(content, m, FormatValue(new_value, m.var_type))

\* `if match:` of _replace_variable
ReplaceVariableAt(content, m, new_value) ==
    IF ~m.ok THEN Converted(content)
    ELSE VariableRewritten(content, m, FormatValue(new_value, m.var_type))

\* _replace_variable(content, var_name, new_value)
ReplaceVariable(content, var_name, new_value) ==
    ReplaceVariableAt(content, SearchVariable(var_name, content), new_value)

\* one iteration of the loop of modify_parameters
ModifyOne(after_parameter, param_name, new_value) ==
    IF after_parameter.raised THEN ConvertRaised
    ELSE ReplaceVariable(after_parameter.v, param_name, new_value)

RECURSIVE ModifyFrom(_, _, _)
\* the loop of modify_parameters from item k of modifications.items(), a
\* sequence of <<param_name, new_value>> in insertion order
ModifyFrom(modified, modifications, k) ==
    IF modified.raised \/ k > Len(modifications) THEN modified
    ELSE ModifyFrom(ModifyOne(ReplaceParameter(modified.v, modifications[k][1],
                                               modifications[k][2]),
                              modifications[k][1], modifications[k][2]),
                    modifications, k + 1)

\* modify_parameters(java_content, modifications)
ModifyParameters(java_content, modifications) ==
    ModifyFrom(Converted(java_content), modifications, 1)

RECURSIVE ParameterFindIter(_, _)
\* PARAMETER_PATTERN.finditer(java_content) from position i
ParameterFindFrom(s, starts) ==
    IF starts = {} THEN <<>>
    ELSE <<ParameterMatchAt(s, Min(starts))>>
         \o ParameterFindIter(s, ParameterMatchAt(s, Min(starts)).end)

ParameterFindIter(s, i) ==
    ParameterFindFrom(s, {j \in i..Len(s) : ParameterMatchAt(s, j).ok})

\* the entry extract_parameters stores for a match
ParameterInfo(m) ==
    [variable_name |-> m.var_name, type |-> m.var_type,
     current_value |-> Strip(m.value)]

\* parameters[param_name] = {...} for each match in order, a later match of
\* a name replacing the earlier entry
ParametersOf(ms) ==
    [n \in {ms[k].name : k \in 1..Len(ms)} |->
        ParameterInfo(ms[Max({k \in 1..Len(ms) : ms[k].name = n})])]

\* extract_parameters(java_content)
ExtractParameters(java_content) ==
    ParametersOf(ParameterFindIter(java_content, 1))

----------------------------------------------------------------------------
(* The Java sources and values modify_parameters and _format_value are     *)
(* applied to.                                                             *)

\* the declaration of test_modify_parameters, as _replace_parameter writes it
JavaCanonical ==
    <<"@","P","a","r","a","m","e","t","e","r","(","\"","s","t","a","r","t",
      "\"",")","\n"," "," "," "," ","p","r","i","v","a","t","e"," ","S","t",
      "r","i","n","g"," ","s","t","a","r","t"," ","="," ","\"","a","\"",";",
      "\n">>

\* a parameter held in a field of another name, and a bare field of its name
JavaShadowField ==
    <<"@","P","a","r","a","m","e","t","e","r","(","\"","s","t","a","r","t",
      "\"",")","\n","S","t","r","i","n","g"," ","f","r","o","m"," ","="," ",
      "\"","a","\"",";","\n","i","n","t"," ","s","t","a","r","t"," ","=",
      " ","1",";","\n">>

\* two parameters, each held in the field named like the other
JavaCrossNamed ==
    <<"@","P","a","r","a","m","e","t","e","r","(","\"","s","t","a","r","t",
      "\"",")","\n"," "," "," "," ","p","r","i","v","a","t","e"," ","S","t",
      "r","i","n","g"," ","x"," ","="," ","\"","1","\"",";","\n","@","P",
      "a","r","a","m","e","t","e","r","(","\"","x","\"",")","\n"," "," ",
      " "," ","p","r","i","v","a","t","e"," ","S","t","r","i","n","g"," ",
      "s","t","a","r","t"," ","="," ","\"","2","\"",";","\n">>

\* two bare declarations of one name
JavaTwoLimits ==
    <<"i","n","t"," ","l","i","m","i","t","="," ","5",";","\n","l","o","n",
      "g"," ","l","i","m","i","t"," ","="," ","6",";","\n">>

\* no declaration at all
JavaNoFields ==
    <<"c","l","a","s","s"," ","T"," ","{"," ","}","\n">>

\* a parameter of a type variable
JavaGeneric ==
    <<"@","P","a","r","a","m","e","t","e","r","(","\"","l","i","m","i","t",
      "\"",")","\n"," "," "," "," ","p","r","i","v","a","t","e"," ","T"," ",
      "l","i","m","i","t"," ","="," ","x",";","\n">>

\* an int parameter
JavaIntLimit ==
    <<"@","P","a","r","a","m","e","t","e","r","(","\"","l","i","m","i","t",
      "\"",")","\n"," "," "," "," ","p","r","i","v","a","t","e"," ","i","n",
      "t"," ","l","i","m","i","t"," ","="," ","5",";","\n">>

w_start == <<"s","t","a","r","t">>

w_limit == <<"l","i","m","i","t">>

w_zz == <<"z","z">>

w_b == <<"b">>

w_test == <<"t","e","s","t">>

\* a value that holds the character ending a declaration
w_a_semicolon_b == <<"a",";","b">>

t_String == <<"S","t","r","i","n","g">>

t_int == <<"i","n","t">>

t_Integer == <<"I","n","t","e","g","e","r">>

t_long == <<"l","o","n","g">>

t_double == <<"d","o","u","b","l","e">>

t_float == <<"f","l","o","a","t">>

t_boolean == <<"b","o","o","l","e","a","n">>

t_List == <<"L","i","s","t">>

t_Object == <<"O","b","j","e","c","t">>

t_T == <<"T">>

t_E == <<"E">>

t_BigDecimal == <<"B","i","g","D","e","c","i","m","a","l">>

JavaSources ==
    {JavaCanonical, JavaShadowField, JavaCrossNamed, JavaTwoLimits,
     JavaNoFields, JavaGeneric, JavaIntLimit}

ParameterNames == {w_start, w_limit, w_zz}

NewValues == {Str(w_b), Str(w_a_semicolon_b), IntV(7)}

MaxModifications == 2

\* a dict of n modifications as its items: the names are distinct
ModificationItems(n) ==
    {m \in [1..n -> ParameterNames \X NewValues] :
        \A i, j \in 1..n : i # j => m[i][1] # m[j][1]}

Modifications == UNION {ModificationItems(n) : n \in 0..MaxModifications}

\* the values and type tokens _format_value is called with
FormatValues ==
    {Str(w_test), Str(w_a_semicolon_b), Str(<<"4", "2">>), Str(<<>>),
     IntV(42), IntV(0 - 3), BoolV(TRUE), BoolV(FALSE),
     FloatV(<<"3", ".", "1", "4">>), Lst(<<Str(w_b), Str(w_test)>>),
     Lst(<<Str(w_b)>>), Lst(<<>>), None}

TypeTokens ==
    {t_String, t_int, t_Integer, t_long, t_double, t_float, t_boolean,
     t_List, t_Object, t_T, t_E, t_BigDecimal}

----------------------------------------------------------------------------
(* JavaCodeModifier on its own: modify_parameters applied to a source and  *)
(* a modification dict, then applied again to its own output, and          *)
(* extract_parameters applied to its output.                               *)

ModifyInit ==
    /\ \E text \in JavaSources, mods \in Modifications :
          /\ mp_content = text
          /\ mp_mods = mods
    /\ mp_out = None
    /\ mp_again = None
    /\ mp_params = None
    /\ fv_value = None
    /\ fv_type = <<>>
    /\ fv_out = None
    /\ criteria = DefaultCriteria
    /\ config_roots = <<>>
    /\ java_roots = <<>>
    /\ mode = "modify"
    /\ pc = "modify_idle"
    /\ cursor = 0
    /\ matches = <<>>
    /\ parsed = NotParsed
    /\ result = <<>>
    /\ raised = FALSE
    /\ sc_meta = EmptyDict
    /\ sc_text = <<>>
    /\ sc_out = Ok(0)
    /\ ExecutorIdle /\ AgentIdle

searchVars == <<criteria, config_roots, java_roots, mode, cursor, matches,
                parsed, result, raised, sc_meta, sc_text, sc_out>>

\* modify_parameters(java_content, modifications)
ModifyCall ==
    /\ pc = "modify_idle"
    /\ mp_out' = ModifyParameters(mp_content, mp_mods)
    /\ pc' = "modified"
    /\ UNCHANGED <<mp_content, mp_mods, mp_again, mp_params, fv_value,
                   fv_type, fv_out>>
    /\ UNCHANGED <<searchVars, executorVars, agentVars>>

\* modify_parameters(modified, modifications) on the text just returned
ModifyAgainCall ==
    /\ pc = "modified"
    /\ ~mp_out.raised
    /\ mp_again' = ModifyParameters(mp_out.v, mp_mods)
    /\ pc' = "modified_again"
    /\ UNCHANGED <<mp_content, mp_mods, mp_out, mp_params, fv_value,
                   fv_type, fv_out>>
    /\ UNCHANGED <<searchVars, executorVars, agentVars>>

\* extract_parameters(modified) on the text just returned
ExtractCall ==
    /\ pc = "modified"
    /\ ~mp_out.raised
    /\ mp_params' = ExtractParameters(mp_out.v)
    /\ pc' = "extracted"
    /\ UNCHANGED <<mp_content, mp_mods, mp_out, mp_again, fv_value,
                   fv_type, fv_out>>
    /\ UNCHANGED <<searchVars, executorVars, agentVars>>

ModifyNext == ModifyCall \/ ModifyAgainCall \/ ExtractCall

SpecModify == ModifyInit /\ [][ModifyNext]_vars

----------------------------------------------------------------------------
(* _format_value on its own.                                               *)

FormatInit ==
    /\ \E value \in FormatValues, java_type \in TypeTokens :
          /\ fv_value = value
          /\ fv_type = java_type
    /\ fv_out = None
    /\ mp_content = <<>>
    /\ mp_mods = <<>>
    /\ mp_out = None
    /\ mp_again = None
    /\ mp_params = None
    /\ criteria = DefaultCriteria
    /\ config_roots = <<>>
    /\ java_roots = <<>>
    /\ mode = "format"
    /\ pc = "format_idle"
    /\ cursor = 0
    /\ matches = <<>>
    /\ parsed = NotParsed
    /\ result = <<>>
    /\ raised = FALSE
    /\ sc_meta = EmptyDict
    /\ sc_text = <<>>
    /\ sc_out = Ok(0)
    /\ ExecutorIdle /\ AgentIdle

\* _format_value(value, java_type)
FormatCall ==
    /\ pc = "format_idle"
    /\ fv_out' = FormatValue(fv_value, fv_type)
    /\ pc' = "formatted"
    /\ UNCHANGED <<mp_content, mp_mods, mp_out, mp_again, mp_params,
                   fv_value, fv_type>>
    /\ UNCHANGED <<searchVars, executorVars, agentVars>>

FormatNext == FormatCall

SpecFormat == FormatInit /\ [][FormatNext]_vars

----------------------------------------------------------------------------
(* JavaExecutor of src/src/java_executor.py, constructed without java_home, *)
(* maven_home and gradle_home.  A command line is a sequence of arguments,  *)
(* each the sequence of the strings concatenated into it.  The output tree  *)
(* is the set of entries below config.output_dir or the working directory:  *)
(* [name, mtime, is_dir], name being the last path component.               *)

JavaTestConfig(class_name, method_name, system_properties, classpath,
               timeout_seconds) ==
    [class_name |-> class_name, method_name |-> method_name,
     system_properties |-> system_properties, classpath |-> classpath,
     timeout_seconds |-> timeout_seconds]

ExecutionResult(success, exit_code, stdout, stderr, execution_time_ms,
                report_path, error_message) ==
    [success |-> success, exit_code |-> exit_code, stdout |-> stdout,
     stderr |-> stderr, execution_time_ms |-> execution_time_ms,
     report_path |-> report_path, error_message |-> error_message]

\* _detect_build_tool with the Gradle scripts looked for first
DetectBuildToolGradleFirst(markers) ==
    IF "build.gradle" \in markers \/ "build.gradle.kts" \in markers
    THEN "gradle"
    ELSE IF "pom.xml" \in markers THEN "maven"
    ELSE "direct"

\* _detect_build_tool(project_dir), markers being the files that exist in
\* project_dir
DetectBuildTool(markers) ==
    IF "pom.xml" \in markers THEN "maven"
    ELSE IF "build.gradle" \in markers \/ "build.gradle.kts" \in markers
    THEN "gradle"
    ELSE "direct"

\* for key, value in config.system_properties.items(): f'-D{key}={value}'
SystemProperties(config) ==
    [i \in 1..Len(config.system_properties) |->
        <<"-D", config.system_properties[i][1], "=",
          config.system_properties[i][2]>>]

\* _execute_maven_test handing the classpath to Maven
MavenCommandWithClasspath(config) ==
    <<<<"mvn">>, <<"test">>, <<"-Dtest=", config.class_name>>>>
    \o SystemProperties(config)
    \o [i \in 1..Len(config.classpath) |-> <<"-Dcp=", config.classpath[i]>>]

\* the cmd of _execute_maven_test
MavenCommand(config) ==
    <<<<"mvn">>, <<"test">>,
      IF config.method_name # None
      THEN <<"-Dtest=", config.class_name, "#", config.method_name.v>>
      ELSE <<"-Dtest=", config.class_name>>>>
    \o SystemProperties(config)

\* the cmd of _execute_gradle_test
GradleCommand(config) ==
    <<<<"gradle">>, <<"test">>, <<"--tests">>,
      IF config.method_name # None
      THEN <<config.class_name, ".", config.method_name.v>>
      ELSE <<config.class_name>>>>
    \o SystemProperties(config)

RECURSIVE PathJoin(_)
\* os.pathsep.join(config.classpath)
PathJoin(classpath) ==
    IF Len(classpath) = 1 THEN <<classpath[1]>>
    ELSE <<classpath[1], ":">> \o PathJoin(Tail(classpath))

\* the cmd of _execute_direct_java
DirectCommand(config) ==
    <<<<"java">>>> \o SystemProperties(config)
    \o (IF config.classpath # <<>>
        THEN <<<<"-cp">>, PathJoin(config.classpath)>> ELSE <<>>)
    \o <<<<"org.junit.runner.JUnitCore">>, <<config.class_name>>>>

\* the cmd execute_test hands to _run_command
Command(build_tool, config) ==
    CASE build_tool = "maven"  -> MavenCommand(config)
      [] build_tool = "gradle" -> GradleCommand(config)
      [] OTHER                 -> DirectCommand(config)

\* report_patterns of _find_report
report_patterns ==
    <<<<"*", ".", "h", "t", "m", "l">>, <<"*", ".", "p", "d", "f">>,
      <<"*", ".", "c", "s", "v">>, <<"*", ".", "x", "l", "s", "x">>,
      <<"*", "r", "e", "p", "o", "r", "t", "*">>>>

\* a name matches one of these patterns: *x is a suffix test, *x* a
\* substring test
GlobMatch(pattern, name) ==
    IF pattern[Len(pattern)] = "*"
    THEN Contains(name, SubSeq(pattern, 2, Len(pattern) - 1))
    ELSE /\ Len(name) >= Len(pattern) - 1
         /\ SubSeq(name, Len(name) - Len(pattern) + 2, Len(name))
                = SubSeq(pattern, 2, Len(pattern))

\* list(output_path.glob(f'**/{pattern}')): files and directories alike
Glob(tree, pattern) == {e \in tree : GlobMatch(pattern, e.name)}

\* reports.sort(key=mtime, reverse=True); reports[0]: an entry of the
\* greatest mtime (which one of several the listing order decides)
Newest(reports) == {e \in reports : \A o \in reports : o.mtime <= e.mtime}

RECURSIVE FindReportFrom(_, _)
\* the loop of _find_report from pattern k: the values it may return,
\* Propagated when p.stat() raises on a match
FindReportFrom(tree, k) ==
    IF k > Len(report_patterns) THEN {None}
    ELSE IF Glob(tree, report_patterns[k]) # {}
    THEN IF \E e \in Glob(tree, report_patterns[k]) : e.dangling
         THEN {Propagated}
         ELSE {Str(e.name) : e \in Newest(Glob(tree, report_patterns[k]))}
    ELSE FindReportFrom(tree, k + 1)

\* _find_report(output_dir)
FindReport(tree) == FindReportFrom(tree, 1)

f_out_html == <<"o","u","t",".","h","t","m","l">>

f_new_report_csv == <<"n","e","w","_","r","e","p","o","r","t",".","c","s","v">>

f_old_report_csv == <<"o","l","d","_","r","e","p","o","r","t",".","c","s","v">>

f_run_log == <<"r","u","n",".","l","o","g">>

f_surefire_reports == <<"s","u","r","e","f","i","r","e","-","r","e","p","o","r","t","s">>

f_latest_html == <<"l","a","t","e","s","t",".","h","t","m","l">>

Entry(name, mtime, is_dir) ==
    [name |-> name, mtime |-> mtime, is_dir |-> is_dir, dangling |-> FALSE]

\* a symbolic link whose target does not exist: glob lists it, stat() raises
DanglingLink(name) ==
    [name |-> name, mtime |-> 0, is_dir |-> FALSE, dangling |-> TRUE]

MaxEntries == 2

MaxProperties == 1

\* milliseconds execute_test measures beyond the time the process ran
MaxOverheadMs == 1

\* the entries a tree is made of; MaxEntries times of modification order
\* the entries of a tree in every way
EntryPool ==
    {Entry(n, t, FALSE) : n \in {f_out_html, f_new_report_csv,
                                  f_old_report_csv, f_run_log},
                          t \in 1..MaxEntries}
    \cup {Entry(f_surefire_reports, t, TRUE) : t \in 1..MaxEntries}
    \cup {DanglingLink(f_latest_html)}

\* the trees: at most MaxEntries entries, of distinct names
OutputTrees ==
    {tree \in SUBSET EntryPool :
        /\ Cardinality(tree) <= MaxEntries
        /\ \A a, b \in tree : a.name = b.name => a = b}

\* what a run of the external process may write below the output directory
WrittenFiles == {{}, {f_new_report_csv}}

\* the tree after the process wrote these files, at a time after every
\* earlier modification
Written(tree, names) ==
    {e \in tree : e.name \notin names}
    \cup {Entry(n, MaxEntries + 1, FALSE) : n \in names}

PropertyPool == {<<"env", "uat">>, <<"date", "2025-06-01">>}

PropertyItems(n) ==
    {p \in [1..n -> PropertyPool] :
        \A i, j \in 1..n : i # j => p[i][1] # p[j][1]}

TestConfigs ==
    {JavaTestConfig("WashTradeTest", method_name, properties, classpath,
                    timeout_seconds) :
        method_name \in {None, Str("testReport")},
        properties \in UNION {PropertyItems(n) : n \in 0..MaxProperties},
        classpath \in {<<>>, <<"lib", "classes">>},
        timeout_seconds \in {1, 300}}

MarkerSets == SUBSET {"pom.xml", "build.gradle", "build.gradle.kts"}

----------------------------------------------------------------------------
(* TradeSurveillanceAgent of src/src/agent.py.  The components it drives   *)
(* are taken by what they hand back: the parser a ParsedInquiry or an      *)
(* exception, the search a list sorted by search(), get_available_tests a  *)
(* list or an exception.  A message is the sequence of the pieces its      *)
(* f-string joins; recommendations are not carried.                        *)

AgentResponse(success, message, parsed_inquiry, matched_configs,
              execution_result, raw_data) ==
    [success |-> success, message |-> message,
     parsed_inquiry |-> parsed_inquiry, matched_configs |-> matched_configs,
     execution_result |-> execution_result, raw_data |-> raw_data]

ParsedInquiry(subject, trade_id, account_id, symbol, date_range_start,
              date_range_end, report_type) ==
    [subject |-> subject, trade_id |-> trade_id, account_id |-> account_id,
     symbol |-> symbol, date_range_start |-> date_range_start,
     date_range_end |-> date_range_end, report_type |-> report_type]

\* a datetime at midnight
Date(year, month, day) == [t |-> "datetime", year |-> year, month |-> month,
                           day |-> day]

\* %m and %d: two digits
TwoDigits(n) == IF n < 10 THEN <<"0">> \o NatToStr(n) ELSE NatToStr(n)

\* date.strftime('%Y-%m-%d') for a year of four digits
Strftime(date) ==
    Str(NatToStr(date.year) \o <<"-">> \o TwoDigits(date.month) \o <<"-">>
        \o TwoDigits(date.day))

w_tradeId == <<"t","r","a","d","e","I","d">>

w_accountId == <<"a","c","c","o","u","n","t","I","d">>

w_symbol == <<"s","y","m","b","o","l">>

w_startDate == <<"s","t","a","r","t","D","a","t","e">>

w_endDate == <<"e","n","d","D","a","t","e">>

\* `if x:` on an Optional value: None and the empty value are false
Supplied(x) == x # None /\ (x.t \in {"str", "dict"} => x.v # <<>>)

\* params of process_and_execute, in the order the keys are set
Params(inquiry) ==
    (IF Supplied(inquiry.trade_id)
     THEN <<<<w_tradeId, inquiry.trade_id>>>> ELSE <<>>)
    \o (IF Supplied(inquiry.account_id)
        THEN <<<<w_accountId, inquiry.account_id>>>> ELSE <<>>)
    \o (IF Supplied(inquiry.symbol)
        THEN <<<<w_symbol, inquiry.symbol>>>> ELSE <<>>)
    \o (IF Supplied(inquiry.date_range_start)
        THEN <<<<w_startDate, Strftime(inquiry.date_range_start)>>>> ELSE <<>>)
    \o (IF Supplied(inquiry.date_range_end)
        THEN <<<<w_endDate, Strftime(inquiry.date_range_end)>>>> ELSE <<>>)

\* [m for m in matched_configs if m.file_type == 'java']
JavaMatches(matched_configs) ==
    SelectSeq(matched_configs, LAMBDA m : m.file_type = "java")

\* process_inquiry looking at email_data before email_content
ProcessInquiryDataFirst(email_content, email_data, parse, found) ==
    IF ~Supplied(email_content) /\ ~Supplied(email_data)
    THEN [trace |-> <<>>,
          response |-> AgentResponse(FALSE, <<"No email content provided">>,
                                     None, <<>>, None, <<>>)]
    ELSE IF parse = Propagated
    THEN [trace |-> <<IF Supplied(email_data) THEN "parse_email_dict"
                      ELSE "parse_email_content">>,
          response |-> AgentResponse(FALSE, <<"Error processing inquiry: ",
                                              "str(e)">>,
                                     None, <<>>, None, <<>>)]
    ELSE [trace |-> <<IF Supplied(email_data) THEN "parse_email_dict"
                      ELSE "parse_email_content", "search">>,
          response |-> AgentResponse(TRUE, <<"Processed inquiry: ",
                                             parse.subject>>,
                                     parse, found, None, <<>>)]

\* process_inquiry(email_content, email_data): the components it invoked
\* and its response; parse is what the parser hands back for the input it
\* is given, found what search() returns
ProcessInquiry(email_content, email_data, parse, found) ==
    IF ~Supplied(email_content) /\ ~Supplied(email_data)
    THEN [trace |-> <<>>,
          response |-> AgentResponse(FALSE, <<"No email content provided">>,
                                     None, <<>>, None, <<>>)]
    ELSE IF parse = Propagated
    THEN [trace |-> <<IF Supplied(email_content) THEN "parse_email_content"
                      ELSE "parse_email_dict">>,
          response |-> AgentResponse(FALSE, <<"Error processing inquiry: ",
                                              "str(e)">>,
                                     None, <<>>, None, <<>>)]
    ELSE [trace |-> <<IF Supplied(email_content) THEN "parse_email_content"
                      ELSE "parse_email_dict", "search">>,
          response |-> AgentResponse(TRUE, <<"Processed inquiry: ",
                                             parse.subject>>,
                                     parse, found, None, <<>>)]

\* the message of execute_report for an ExecutionResult
ExecutionMessage(execution_result) ==
    <<"Execution ", IF execution_result.success THEN "succeeded" ELSE "failed">>
    \o (IF execution_result.report_path # None
        THEN <<". Report generated at: ", execution_result.report_path>>
        ELSE <<>>)

\* the response of execute_report once the executor returned or raised
ReportResponse(outcome) ==
    IF outcome.raised
    THEN AgentResponse(FALSE, <<"Error executing report: ", "str(e)">>,
                       None, <<>>, None, <<>>)
    ELSE AgentResponse(outcome.result.success,
                       ExecutionMessage(outcome.result), None, <<>>,
                       outcome.result,
                       IF outcome.modified_code = None THEN <<>>
                       ELSE <<outcome.modified_code>>)

\* the merge of process_and_execute: the inquiry response with the
\* execution result, the raw data and a longer message
WithExecution(inquiry_response, exec_response) ==
    [inquiry_response EXCEPT
        !.execution_result = exec_response.execution_result,
        !.raw_data = exec_response.raw_data,
        !.message = IF exec_response.success
                    THEN @ \o <<" | Report execution succeeded">>
                    ELSE @ \o <<" | Report execution failed: ">>
                           \o exec_response.message]

\* what the operation of the agent under way returns when the execution it
\* began ends with outcome
AgentReturn(call, outcome) ==
    IF call = None THEN None
    ELSE IF call.op = "execute_report" THEN ReportResponse(outcome)
    ELSE WithExecution(call.inquiry_response, ReportResponse(outcome))

----------------------------------------------------------------------------
(* execute_with_modifications.  A path is the sequence of its components   *)
(* below the root; the disk is the set of source files, each a path with   *)
(* its content, and the set of scratch directories that exist.             *)

\* tempfile.mkdtemp(): a directory that did not exist, below the directory
\* of temporary files
TempDir == <<"tmp", "tmp0">>

\* str(temp_dir)
kTempDir == "/tmp/tmp0"

\* config.working_dir or self.project_dir
ProjectDir == <<"tmp", "proj">>

IsPrefix(base, path) ==
    Len(base) <= Len(path) /\ SubSeq(path, 1, Len(base)) = base

\* _get_relative_path(file_path, base_dir): Path.relative_to compares the
\* components as written
RelativePath(file_path, base_dir) ==
    IF IsPrefix(base_dir, file_path)
    THEN SubSeq(file_path, Len(base_dir) + 1, Len(file_path))
    ELSE <<file_path[Len(file_path)]>>

RECURSIVE Resolve(_)
\* path without its component i, a '..', and the component before it
ResolveAt(path, i) ==
    Resolve(SubSeq(path, 1, i - 2) \o SubSeq(path, i + 1, Len(path)))

\* the file a path names once the system follows its '..' components
Resolve(path) ==
    IF \A i \in 1..Len(path) : path[i] # ".." THEN path
    ELSE ResolveAt(path, Min({i \in 1..Len(path) : path[i] = ".."}))

File(path, content) == [path |-> path, content |-> content]

Exists(disk, path) == \E f \in disk.files : f.path = Resolve(path)

\* f.read() of open(path, 'r')
Content(disk, path) == (CHOOSE f \in disk.files : f.path = Resolve(path)).content

\* tempfile.mkdtemp()
Mkdtemp(disk) == [disk EXCEPT !.dirs = @ \cup {TempDir}]

\* open(path, 'w') and f.write(content)
Write(disk, path, content) ==
    [disk EXCEPT !.files = {f \in @ : f.path # Resolve(path)}
                              \cup {File(Resolve(path), content)}]

\* shutil.rmtree(dir, ignore_errors=True)
Rmtree(disk, dir) ==
    [files |-> {f \in disk.files : ~IsPrefix(dir, f.path)},
     dirs |-> disk.dirs \ {dir}]

\* modified_config of execute_with_modifications with the scratch
\* directory left out of the classpath
ModifiedConfigSameClasspath(config, temp_dir) == config

\* modified_config of execute_with_modifications
ModifiedConfig(config, temp_dir) ==
    JavaTestConfig(config.class_name, config.method_name,
                   config.system_properties,
                   config.classpath \o <<temp_dir>>, config.timeout_seconds)

\* the frame of an execute_with_modifications call
Frame(java_file_path, modifications, config) ==
    [java_file_path |-> java_file_path, modifications |-> modifications,
     config |-> config, temp_dir |-> None, modified_content |-> None]

\* how execute_with_modifications or execute_test ended
Outcome(is_raised, execution_result, modified_code) ==
    [raised |-> is_raised, result |-> execution_result,
     modified_code |-> modified_code]

\* the finally clause left out
FinallySkipped(disk, frame) == disk

\* the disk once the finally clause of the frame has run
Finally(disk, frame) ==
    IF frame # None /\ frame.temp_dir # None
    THEN Rmtree(disk, frame.temp_dir)
    ELSE disk

\* execute_test returns r to its caller: execute_with_modifications, when
\* it is the caller, removes its scratch directory and returns r with the
\* rewritten text; the operation of the agent that began the call builds
\* its response
Returns(r) ==
    /\ ex_result' = r
    /\ ex_disk' = Finally(ex_disk, ex_frame)
    /\ ex_returned' = IF ex_frame = None THEN None
                      ELSE Outcome(FALSE, r, ex_frame.modified_content)
    /\ ag_response' = AgentReturn(ag_call, Outcome(FALSE, r,
                          IF ex_frame = None THEN None
                          ELSE ex_frame.modified_content))
    /\ pc' = "done"
    /\ UNCHANGED <<ex_config, ex_markers, ex_cmd, ex_before, ex_launches,
                   ex_frame, ag_call, ag_trace>>
    /\ UNCHANGED <<searchVars, modifierVars>>

\* subprocess.run(cmd, ...) is called with the command of the build tool
Launches(config) ==
    /\ ex_config' = config
    /\ ex_cmd' = Command(DetectBuildTool(ex_markers), config)
    /\ ex_launches' = ex_launches + 1
    /\ pc' = "running"
    /\ UNCHANGED <<ex_markers, ex_output, ex_process, ex_returncode,
                   ex_result, ex_before, ex_returned, ag_response>>
    /\ UNCHANGED <<searchVars, modifierVars>>

\* an exception leaves execute_with_modifications; disk is what it leaves
\* on disk, and the call of the agent, set by the operation that made it,
\* builds its response
Raises(disk) ==
    /\ ex_disk' = disk
    /\ ex_returned' = Propagated
    /\ ag_response' = AgentReturn(ag_call', Outcome(TRUE, None, None))
    /\ pc' = "done"
    /\ UNCHANGED <<ex_config, ex_markers, ex_output, ex_cmd, ex_process,
                   ex_returncode, ex_result, ex_before, ex_launches>>
    /\ UNCHANGED <<searchVars, modifierVars>>

\* execute_with_modifications from the write of the rewritten file on:
\* the write fails and the finally clause runs, or execute_test is called
WritesAndExecutes(frame, modified_content) ==
    \E written \in BOOLEAN :
        IF written
        THEN /\ ex_disk' = Write(Mkdtemp(ex_disk),
                                 TempDir \o RelativePath(frame.java_file_path,
                                                         ProjectDir),
                                 modified_content)
             /\ ex_frame' = [frame EXCEPT !.temp_dir = TempDir,
                                          !.modified_content = modified_content]
             /\ Launches(ModifiedConfig(frame.config, kTempDir))
        ELSE /\ ex_frame' = [frame EXCEPT !.temp_dir = TempDir]
             /\ Raises(Finally(Mkdtemp(ex_disk),
                               [frame EXCEPT !.temp_dir = TempDir]))

\* execute_with_modifications once the file is read and rewritten
Modified(frame, modified) ==
    IF modified.raised
    THEN ex_frame' = frame /\ Raises(ex_disk)
    ELSE WritesAndExecutes(frame, modified.v)

\* execute_with_modifications(java_file_path, modifications, config) up to
\* subprocess.run
ExecuteWithModifications(frame) ==
    IF ~Exists(ex_disk, frame.java_file_path)
    THEN ex_frame' = frame /\ Raises(ex_disk)
    ELSE Modified(frame, ModifyParameters(Content(ex_disk, frame.java_file_path),
                                          frame.modifications))

----------------------------------------------------------------------------
(* execute_test called on its own                                          *)

ExecuteInit ==
    /\ \E config \in TestConfigs, markers \in MarkerSets, tree \in OutputTrees :
          /\ ex_config = config
          /\ ex_markers = markers
          /\ ex_output = tree
          /\ ex_before = tree
    /\ ex_cmd = <<>>
    /\ ex_process = "none"
    /\ ex_returncode = None
    /\ ex_result = None
    /\ ex_launches = 0
    /\ ex_frame = None
    /\ ex_disk = [files |-> {}, dirs |-> {}]
    /\ ex_returned = None
    /\ ModifierIdle /\ AgentIdle
    /\ criteria = DefaultCriteria
    /\ config_roots = <<>>
    /\ java_roots = <<>>
    /\ mode = "execute"
    /\ pc = "execute_idle"
    /\ cursor = 0
    /\ matches = <<>>
    /\ parsed = NotParsed
    /\ result = <<>>
    /\ raised = FALSE
    /\ sc_meta = EmptyDict
    /\ sc_text = <<>>
    /\ sc_out = Ok(0)

\* execute_test(config) up to subprocess.run: the build tool is detected
\* and the command assembled and started
ExecuteTestCall ==
    /\ pc = "execute_idle"
    /\ Launches(ex_config)
    /\ UNCHANGED <<ex_frame, ex_disk, ag_call, ag_trace>>

\* the result of _run_command when the process ended with returncode: the
\* report found, or the failure execute_test makes of an exception raised
\* while looking for it
Completed(returncode, elapsed, report_path) ==
    IF report_path = Propagated
    THEN ExecutionResult(FALSE, 0 - 1, "", "str(e)", elapsed, None,
                         Str("str(e)"))
    ELSE ExecutionResult(returncode = 0, returncode, "stdout", "stderr",
                         elapsed, report_path, None)

\* the process ends within the timeout with some exit code, having written
\* some files: _run_command looks for a report and returns, execute_test
\* sets the measured time and returns
ProcessExits ==
    /\ pc = "running"
    /\ \E returncode \in {0, 1}, elapsed \in {0, ex_config.timeout_seconds * 1000},
          names \in WrittenFiles :
          /\ ex_output' = Written(ex_output, names)
          /\ ex_returncode' = IntV(returncode)
          /\ \E report_path \in FindReport(Written(ex_output, names)) :
                Returns(Completed(returncode, elapsed, report_path))
    /\ ex_process' = "exited"

\* the timeout answered by running the command again
ProcessTimesOutRetried ==
    /\ pc = "running"
    /\ ex_launches' = ex_launches + 1
    /\ UNCHANGED <<ex_config, ex_markers, ex_output, ex_cmd, ex_process,
                   ex_returncode, ex_result, ex_before, ex_frame, ex_disk,
                   ex_returned, pc>>
    /\ UNCHANGED <<searchVars, modifierVars, agentVars>>

\* the process is still running when the timeout expires: subprocess.run
\* raises TimeoutExpired, _run_command returns the timeout result and
\* execute_test sets the measured time on it
ProcessTimesOut ==
    /\ pc = "running"
    /\ \E overhead \in 0..MaxOverheadMs :
          Returns(ExecutionResult(FALSE, 0 - 1, "", "Execution timed out",
                                  ex_config.timeout_seconds * 1000 + overhead,
                                  None, Str("Execution timed out")))
    /\ ex_process' = "timeout"
    /\ UNCHANGED <<ex_output, ex_returncode>>

\* subprocess.run raises another exception (the program is not installed):
\* the except of execute_test returns the failure with str(e)
ProcessNotStarted ==
    /\ pc = "running"
    /\ \E overhead \in 0..MaxOverheadMs :
          Returns(ExecutionResult(FALSE, 0 - 1, "", "str(e)", overhead,
                                  None, Str("str(e)")))
    /\ ex_process' = "not_started"
    /\ UNCHANGED <<ex_output, ex_returncode>>

ExecuteNext ==
    \/ ExecuteTestCall
    \/ ProcessExits
    \/ ProcessTimesOut
    \/ ProcessNotStarted

SpecExecute == ExecuteInit /\ [][ExecuteNext]_vars

----------------------------------------------------------------------------
(* execute_with_modifications called on its own                            *)

p_Foo == <<"tmp", "proj", "src", "Foo.java">>

p_Limit == <<"tmp", "Limit.java">>

p_proj_up_Limit == <<"tmp", "proj", "..", "Limit.java">>

p_opt_Foo == <<"opt", "Foo.java">>

p_Missing == <<"tmp", "proj", "Missing.java">>

\* the source files on disk: one below the project directory, one beside
\* it, one elsewhere
SourceFiles ==
    {File(p_Foo, JavaCanonical), File(p_Limit, JavaIntLimit),
     File(p_opt_Foo, JavaCanonical)}

\* the java_file_path arguments: each file, the second one named through
\* the project directory, and a file that does not exist
FilePaths == {p_Foo, p_proj_up_Limit, p_opt_Foo, p_Missing}

\* the modifications arguments; the last one cannot be formatted as int
ScratchModifications ==
    {<<>>, <<<<w_start, Str(w_b)>>>>, <<<<w_limit, IntV(7)>>>>,
     <<<<w_limit, Str(w_b)>>>>}

ScratchConfigs ==
    {config \in TestConfigs :
        config.method_name = None /\ config.timeout_seconds = 300}

ScratchTrees == {{}, {Entry(f_out_html, 1, FALSE)}}

ScratchInit ==
    /\ \E java_file_path \in FilePaths, modifications \in ScratchModifications,
          config \in ScratchConfigs, markers \in MarkerSets,
          tree \in ScratchTrees :
          /\ ex_frame = Frame(java_file_path, modifications, config)
          /\ ex_markers = markers
          /\ ex_output = tree
          /\ ex_before = tree
    /\ ex_config = None
    /\ ex_cmd = <<>>
    /\ ex_process = "none"
    /\ ex_returncode = None
    /\ ex_result = None
    /\ ex_launches = 0
    /\ ex_disk = [files |-> SourceFiles, dirs |-> {}]
    /\ ex_returned = None
    /\ ModifierIdle /\ AgentIdle
    /\ criteria = DefaultCriteria
    /\ config_roots = <<>>
    /\ java_roots = <<>>
    /\ mode = "execute_with_modifications"
    /\ pc = "scratch_idle"
    /\ cursor = 0
    /\ matches = <<>>
    /\ parsed = NotParsed
    /\ result = <<>>
    /\ raised = FALSE
    /\ sc_meta = EmptyDict
    /\ sc_text = <<>>
    /\ sc_out = Ok(0)

\* execute_with_modifications(java_file_path, modifications, config) called
\* on its own
ExecuteWithModificationsCall ==
    /\ pc = "scratch_idle"
    /\ UNCHANGED <<ag_call, ag_trace>>
    /\ ExecuteWithModifications(ex_frame)

ScratchNext ==
    \/ ExecuteWithModificationsCall
    \/ ProcessExits
    \/ ProcessTimesOut
    \/ ProcessNotStarted

SpecScratch == ScratchInit /\ [][ScratchNext]_vars

----------------------------------------------------------------------------
(* The operations of TradeSurveillanceAgent                                *)

\* config of execute_report (output_dir and working_dir are the tree and
\* the markers of the state)
ReportConfig(java_class, method_name) ==
    JavaTestConfig(java_class, method_name, <<>>, <<>>, 300)

\* the operation returns without running anything
AgentDone(trace, response) ==
    /\ ag_trace' = trace
    /\ ag_response' = response
    /\ pc' = "done"
    /\ UNCHANGED <<searchVars, modifierVars, executorVars>>

\* execute_report(java_class, method_name, parameters, java_file_path) up
\* to subprocess.run, trace being what the operation invoked before
ExecuteReport(trace, java_class, method_name, parameters, java_file_path) ==
    IF Supplied(parameters) /\ Supplied(java_file_path)
    THEN /\ ag_trace' = Append(trace, "execute_with_modifications")
         /\ ExecuteWithModifications(
                Frame(java_file_path.v, parameters.v,
                      ReportConfig(java_class, method_name)))
    ELSE /\ ag_trace' = Append(trace, "execute_test")
         /\ Launches(ReportConfig(java_class, method_name))
         /\ UNCHANGED <<ex_frame, ex_disk>>

\* java_matches[-1]
LastMatch(java_matches) == java_matches[Len(java_matches)]

\* best_match = java_matches[0]
BestMatch(java_matches) == java_matches[1]

\* process_and_execute from `# Execute` on
ExecuteBest(trace, best_match, params) ==
    ExecuteReport(trace, best_match.java_class, best_match.java_method,
                  IF params # <<>> THEN Dict(params) ELSE None,
                  IF params # <<>> THEN Str(best_match.file_path) ELSE None)

\* process_and_execute once process_inquiry returned inquiry
Continue(call, inquiry) ==
    IF \/ ~inquiry.response.success
       \/ inquiry.response.matched_configs = <<>>
       \/ ~call.auto_execute
       \/ JavaMatches(inquiry.response.matched_configs) = <<>>
    THEN /\ ag_call' = call
         /\ AgentDone(inquiry.trace, inquiry.response)
    ELSE /\ ag_call' = [call EXCEPT !.inquiry_response = inquiry.response]
         /\ ExecuteBest(inquiry.trace,
                        BestMatch(JavaMatches(inquiry.response.matched_configs)),
                        Params(inquiry.response.parsed_inquiry))

\* a *Test*.java file below a test directory
TestFile(readable, class_name) == [readable |-> readable, class_name |-> class_name]

\* get_available_tests(): open() or read() raises on a file that cannot be
\* read or decoded, and nothing catches it
GetAvailableTests(files) ==
    IF \E i \in 1..Len(files) : ~files[i].readable THEN Propagated
    ELSE Lst([i \in 1..Len(files) |-> [class_name |-> files[i].class_name]])

\* reports of get_available_reports, by report type
\* the score of a file under the empty criteria of get_all_configs passes
\* the `relevance_score > 0` filter of search()
ListedByDefault(m) ==
    /\ ~CalculateRelevance(m.metadata, m.content, DefaultCriteria).raised
    /\ CalculateRelevance(m.metadata, m.content, DefaultCriteria).score > 0

\* get_all_configs(): search() under empty criteria, grouped by report_type
GetAllConfigs(files) == Organize(EmptyDict, SelectSeq(files, ListedByDefault))

Reports(configs) ==
    [report_type \in DOMAIN configs |->
        [config_count |-> Len(configs[report_type]),
         configs |-> configs[report_type]]]

\* a call of an operation with its arguments and with what the components
\* hand back during it
Call(op, email_content, email_data, auto_execute, parse, found, java_class,
     method_name, parameters, java_file_path, tests) ==
    [op |-> op, email_content |-> email_content, email_data |-> email_data,
     auto_execute |-> auto_execute, parse |-> parse, found |-> found,
     java_class |-> java_class, method_name |-> method_name,
     parameters |-> parameters, java_file_path |-> java_file_path,
     tests |-> tests, inquiry_response |-> None]

EmailContents == {None, Str(<<>>), Str(<<"Subject: wash trades">>)}

EmailDatas == {None, Dict(<<>>), Dict(<<<<"subject", "wash trades">>>>)}

Inquiries ==
    {ParsedInquiry("wash trades", None, None, None, None, None, None),
     ParsedInquiry("wash trades", Str(<<"T","1">>), None, None, None, None,
                   Str(<<"w","a","s","h","_","t","r","a","d","e">>)),
     ParsedInquiry("wash trades", None, None, None, Date(2024, 1, 5),
                   Date(2024, 11, 30), None)}

p_a_yml == <<"tmp", "proj", "configs", "a.yml">>

YmlFound(score) ==
    ConfigMatch(p_a_yml, "yml", EmptyDict, None, None, score, <<>>)

JavaFound(path, class, score) ==
    ConfigMatch(path, "java", EmptyDict, class, None, score, <<>>)

\* what search() returns: each list in the order its sort leaves
FoundLists ==
    {SortByScore(ms) :
        ms \in {<<>>, <<YmlFound(3)>>,
                <<YmlFound(3), JavaFound(p_opt_Foo, "OptTest", 2),
                  JavaFound(p_Foo, "FooTest", 5)>>,
                <<JavaFound(p_Limit, "LimitTest", 4), YmlFound(4),
                  JavaFound(p_Foo, "FooTest", 4)>>}}

TestListings ==
    {<<>>, <<TestFile(TRUE, "FooTest")>>, <<TestFile(FALSE, "")>>,
     <<TestFile(TRUE, "FooTest"), TestFile(FALSE, "")>>}

NoArguments(op) ==
    Call(op, None, None, FALSE, None, <<>>, "", None, None, None, <<>>)

AgentCalls ==
    {Call(op, email_content, email_data, auto_execute, parse, found, "",
          None, None, None, <<>>) :
        op \in {"process_inquiry", "process_and_execute"},
        email_content \in EmailContents, email_data \in EmailDatas,
        auto_execute \in BOOLEAN, parse \in Inquiries \cup {Propagated},
        found \in FoundLists}
    \cup {[NoArguments("search_configs") EXCEPT !.found = found] :
             found \in FoundLists}
    \cup {[NoArguments("execute_report") EXCEPT
              !.java_class = "FooTest", !.method_name = method_name,
              !.parameters = parameters, !.java_file_path = java_file_path] :
             method_name \in {None, Str("testReport")},
             parameters \in {None, Dict(<<>>)}
                 \cup {Dict(ms) : ms \in ScratchModifications},
             java_file_path \in {None} \cup {Str(p) : p \in FilePaths}}
    \cup {NoArguments("get_available_reports")}
    \cup {[NoArguments("list_tests") EXCEPT !.tests = tests] :
             tests \in TestListings}

AgentInit ==
    /\ ag_call \in AgentCalls
    /\ ag_trace = <<>>
    /\ ag_response = None
    /\ ex_markers \in {{}, {"pom.xml"}}
    /\ ex_output \in ScratchTrees
    /\ ex_before = ex_output
    /\ ex_config = None
    /\ ex_cmd = <<>>
    /\ ex_process = "none"
    /\ ex_returncode = None
    /\ ex_result = None
    /\ ex_launches = 0
    /\ ex_frame = None
    /\ ex_disk = [files |-> SourceFiles, dirs |-> {}]
    /\ ex_returned = None
    /\ ModifierIdle
    /\ criteria = DefaultCriteria
    /\ config_roots = <<>>
    /\ java_roots = <<>>
    /\ mode = "agent"
    /\ pc = "agent_idle"
    /\ cursor = 0
    /\ matches = <<>>
    /\ parsed = NotParsed
    /\ result = <<>>
    /\ raised = FALSE
    /\ sc_meta = EmptyDict
    /\ sc_text = <<>>
    /\ sc_out = Ok(0)

\* process_inquiry(email_content, email_data)
ProcessInquiryCall ==
    /\ pc = "agent_idle"
    /\ ag_call.op = "process_inquiry"
    /\ AgentDone(ProcessInquiry(ag_call.email_content, ag_call.email_data,
                                ag_call.parse, ag_call.found).trace,
                 ProcessInquiry(ag_call.email_content, ag_call.email_data,
                                ag_call.parse, ag_call.found).response)
    /\ UNCHANGED ag_call

\* search_configs(keywords, report_type, domain)
SearchConfigsCall ==
    /\ pc = "agent_idle"
    /\ ag_call.op = "search_configs"
    /\ AgentDone(<<"search">>,
                 AgentResponse(TRUE, <<"Found ", Len(ag_call.found),
                                       " matching configurations">>,
                               None, ag_call.found, None, <<>>))
    /\ UNCHANGED ag_call

\* execute_report(java_class, method_name, parameters, java_file_path) up
\* to subprocess.run
ExecuteReportCall ==
    /\ pc = "agent_idle"
    /\ ag_call.op = "execute_report"
    /\ UNCHANGED ag_call
    /\ ExecuteReport(<<>>, ag_call.java_class, ag_call.method_name,
                     ag_call.parameters, ag_call.java_file_path)

\* process_and_execute(email_content, email_data, auto_execute) up to
\* subprocess.run
ProcessAndExecuteCall ==
    /\ pc = "agent_idle"
    /\ ag_call.op = "process_and_execute"
    /\ Continue(ag_call, ProcessInquiry(ag_call.email_content,
                                        ag_call.email_data, ag_call.parse,
                                        ag_call.found))

\* get_available_reports(): get_all_configs searches with empty criteria
GetAvailableReportsCall ==
    /\ pc = "agent_idle"
    /\ ag_call.op = "get_available_reports"
    /\ AgentDone(<<"get_all_configs">>,
                 IF GetAllConfigs(ag_call.found).raised THEN Propagated
                 ELSE Reports(GetAllConfigs(ag_call.found).dict))
    /\ UNCHANGED ag_call

\* list_tests()
ListTestsCall ==
    /\ pc = "agent_idle"
    /\ ag_call.op = "list_tests"
    /\ AgentDone(<<"get_available_tests">>, GetAvailableTests(ag_call.tests))
    /\ UNCHANGED ag_call

AgentNext ==
    \/ ProcessInquiryCall
    \/ SearchConfigsCall
    \/ ExecuteReportCall
    \/ ProcessAndExecuteCall
    \/ GetAvailableReportsCall
    \/ ListTestsCall
    \/ ProcessExits
    \/ ProcessTimesOut
    \/ ProcessNotStarted

SpecAgent == AgentInit /\ [][AgentNext]_vars

----------------------------------------------------------------------------
(* Every way into execute_test                                             *)

\* execute_test called on its own, on the output trees of the other calls
DirectInit == ExecuteInit /\ ex_output \in ScratchTrees

CallsInit == DirectInit \/ ScratchInit \/ AgentInit

CallsNext ==
    \/ ExecuteTestCall
    \/ ExecuteWithModificationsCall
    \/ ProcessInquiryCall
    \/ SearchConfigsCall
    \/ ExecuteReportCall
    \/ ProcessAndExecuteCall
    \/ GetAvailableReportsCall
    \/ ListTestsCall
    \/ ProcessExits
    \/ ProcessTimesOut
    \/ ProcessNotStarted

SpecCalls == CallsInit /\ [][CallsNext]_vars

----------------------------------------------------------------------------
(* Properties                                                              *)

AllYml == YmlCandidates(config_roots)

AllJava == JavaCandidates(java_roots)

SearchDone == pc = "done" /\ mode = "search"

IsMatch(m) == m # None /\ m # Propagated

\* the candidate just visited came from a config directory
YmlVisited == parsed.t = "parsed" /\ parsed.file.path[2] \in {"yml", "yaml"}

InResult(f) == \E i \in DOMAIN result : result[i].file_path = f.path

ScoresZero(m) == IsMatch(m) /\ m.relevance_score = 0

\* C1: every match search() collects and returns has relevance_score > 0,
\* and a candidate whose computed score is 0 is not in the returned list.
C1_NoZeroScoreReturned ==
    /\ mode = "search" => \A i \in DOMAIN matches : matches[i].relevance_score > 0
    /\ SearchDone =>
          /\ \A i \in DOMAIN result : result[i].relevance_score > 0
          /\ \A i \in DOMAIN AllYml :
                ScoresZero(ParseYmlFile(AllYml[i], criteria)) => ~InResult(AllYml[i])
          /\ \A i \in DOMAIN AllJava :
                ScoresZero(ParseJavaFile(AllJava[i], criteria)) => ~InResult(AllJava[i])

\* a search returned matches although a candidate scored 0
C1_Witness ==
    /\ SearchDone
    /\ result # <<>>
    /\ \E i \in DOMAIN AllYml : ScoresZero(ParseYmlFile(AllYml[i], criteria))

\* C2: the list search() returns is in non-increasing relevance_score
\* order, config and test matches together.
C2_ResultSortedDescending ==
    SearchDone =>
        \A i \in 1..(Len(result) - 1) :
            result[i].relevance_score >= result[i + 1].relevance_score

\* a returned list in which a test match, collected after every config
\* match, stands before a config match with a lower score
C2_Witness ==
    /\ SearchDone
    /\ \E i \in DOMAIN result : \E j \in DOMAIN result :
          /\ i < j
          /\ result[i].file_type = "java"
          /\ result[j].file_type = "yml"
          /\ result[i].relevance_score > result[j].relevance_score

\* an Optional[str] criteria field that is set (None and '' are not)
Given(x) == x.t = "str" /\ x.v # <<>>

\* case-insensitive equality of two texts
SameText(a, b) == Lower(a) = Lower(b)

\* a metadata value as the list of its strings
Strings(v) == IF v.t = "list" THEN v.v ELSE <<v>>

StrOrStrList(v) ==
    v.t = "str" \/ (v.t = "list" /\ \A i \in DOMAIN v.v : v.v[i].t = "str")

\* an Optional[str] criteria field that holds a string, '' included
Stated(x) == x.t = "str"

\* the score table of the scorer's contract; Applies tells which criteria
\* fields the report_type, domain and capability rows are read for
TableScore(md, text, c, Applies(_)) ==
      Cardinality({i \in DOMAIN c.keywords :
                     \/ Contains(Lower(text), Lower(c.keywords[i]))
                     \/ Contains(Lower(text), ReplaceUnderscore(Lower(c.keywords[i])))})
    + (IF Applies(c.report_type) /\ Contains(Lower(text), Lower(c.report_type.v))
       THEN 2 ELSE 0)
    + (IF /\ Applies(c.report_type)
          /\ kREPORT_TYPE \in DOMAIN md
          /\ SameText(md[kREPORT_TYPE].v, c.report_type.v)
       THEN 3 ELSE 0)
    + (IF /\ Applies(c.domain)
          /\ kDOMAIN \in DOMAIN md
          /\ SameText(md[kDOMAIN].v, c.domain.v)
       THEN 2 ELSE 0)
    + (IF /\ Applies(c.capability)
          /\ kCAPABILITY \in DOMAIN md
          /\ \E j \in DOMAIN Strings(md[kCAPABILITY]) :
                SameText(Strings(md[kCAPABILITY])[j].v, c.capability.v)
       THEN 2 ELSE 0)
    + Cardinality({i \in DOMAIN c.tags :
                     /\ kTAGS \in DOMAIN md
                     /\ \E j \in DOMAIN Strings(md[kTAGS]) :
                           SameText(Strings(md[kTAGS])[j].v, c.tags[i])})

\* the metadata the table is stated for
TableInputs(md) ==
    /\ kREPORT_TYPE \in DOMAIN md => md[kREPORT_TYPE].t = "str"
    /\ kDOMAIN \in DOMAIN md => md[kDOMAIN].t = "str"
    /\ kCAPABILITY \in DOMAIN md => StrOrStrList(md[kCAPABILITY])
    /\ kTAGS \in DOMAIN md => StrOrStrList(md[kTAGS])

WashScenario ==
    /\ sc_text = YmlWashTrade.content
    /\ sc_meta = YmlDirectives(YmlWashTrade.content)
    /\ criteria = SearchCriteria(<<w_wash>>, Str(w_wash_trade), None, None, <<>>)

\* C3 as stated: for metadata whose report_type and domain are strings and
\* whose capability and tags are strings or lists of strings, the score is
\* exactly the sum of the table's contributions for any criteria.
C3_TableAsStated ==
    (pc = "scored" /\ TableInputs(sc_meta)) =>
        /\ ~sc_out.raised
        /\ sc_out.score = TableScore(sc_meta, sc_text, criteria, Stated)

\* C3 amended: for such metadata the score is exactly the sum of the
\* table's contributions, compared case-insensitively, where the
\* report_type, domain and capability rows contribute only for a criteria
\* field that is a non-empty string (an empty string counts as not set);
\* the wash_trade scenario scores 6.
C3_ScoreIsTableSum ==
    pc = "scored" =>
        /\ TableInputs(sc_meta) =>
              /\ ~sc_out.raised
              /\ sc_out.score = TableScore(sc_meta, sc_text, criteria, Given)
        /\ WashScenario => sc_out.score = 6

\* the wash_trade scenario has been scored
C3_Witness == pc = "scored" /\ WashScenario /\ ~sc_out.raised

\* every value is a single string or a list of strings
DataModel(md) == \A k \in DOMAIN md : StrOrStrList(md[k])

\* C5: for every metadata mapping of the data model (each value a string
\* or a list of strings, also under report_type and domain), any text and
\* any criteria, the scorer returns a number >= 0 and does not raise.
C5_ScorerTotal ==
    (pc = "scored" /\ DataModel(sc_meta)) =>
        (~sc_out.raised /\ sc_out.score >= 0)

\* list(dict.fromkeys(seq)): the first occurrence of each element
RECURSIVE Dedup(_)
Dedup(seq) ==
    IF seq = <<>> THEN <<>>
    ELSE LET d == Dedup(SubSeq(seq, 1, Len(seq) - 1))
         IN  IF seq[Len(seq)] \in Range(d) THEN d ELSE Append(d, seq[Len(seq)])

AsSets(c) ==
    SearchCriteria(Dedup(c.keywords), c.report_type, c.domain, c.capability,
                   Dedup(c.tags))

\* C6: keywords and tags behave as sets: listing one twice gives the score
\* of listing it once, also for the criteria process_inquiry builds.
C6_KeywordsAndTagsAreSets ==
    (pc = "scored" /\ ~sc_out.raised) =>
        sc_out = CalculateRelevance(sc_meta, sc_text, AsSets(criteria))


\* the groups of a returned grouping that hold the file
GroupsOf(f) ==
    {k \in DOMAIN result : \E i \in DOMAIN result[k] : result[k][i].file_path = f.path}

\* the group a readable file belongs in: its report_type, else 'unknown'
ListedUnderReportType(f) ==
    /\ Cardinality(GroupsOf(f)) = 1
    /\ \A k \in GroupsOf(f) : \A i \in DOMAIN result[k] :
          result[k][i].file_path = f.path =>
              k = Get(result[k][i].metadata, kREPORT_TYPE, Str(kUNKNOWN))

\* C4: get_all_configs bypasses score filtering: every readable config and
\* test file under the configured roots is in the returned grouping, in
\* exactly one group, keyed by its report_type metadata or 'unknown'.
C4_GetAllConfigsListsEveryFile ==
    (pc = "done" /\ mode = "get_all_configs") =>
        /\ ~raised
        /\ \A i \in DOMAIN AllYml :
              AllYml[i].readable => ListedUnderReportType(AllYml[i])
        /\ \A i \in DOMAIN AllJava :
              AllJava[i].readable => ListedUnderReportType(AllJava[i])

\* the body parsed to a mapping with a nested metadata mapping
HasBlock(y) ==
    /\ y.t = "dict"
    /\ y.v # <<>>
    /\ HasKey(y, Str(kMETADATA))
    /\ Item(y, Str(kMETADATA)).t = "dict"

\* the items of that nested mapping, in document order
Block(y) == Item(y, Str(kMETADATA)).v

BlockKeys(y) ==
    IF HasBlock(y) THEN {Lower(Block(y)[i][1].v) : i \in DOMAIN Block(y)} ELSE {}

\* keys present only in directives keep their directive value
DirectiveOnlyKept(f, md) ==
    LET directives == YmlDirectives(f.content)
    IN  \A k \in DOMAIN directives \ BlockKeys(f.yaml) :
            k \in DOMAIN md /\ md[k] = directives[k]

\* a config file with a metadata block was extracted
BlockExtracted == YmlVisited /\ IsMatch(parsed.match) /\ HasBlock(parsed.file.yaml)

LastOfItsKey(b, i) ==
    \A j \in DOMAIN b : j > i => Lower(b[j][1].v) # Lower(b[i][1].v)

RawMatches ==
    IF YmlVisited THEN YmlFindIter(parsed.file.content, 1)
    ELSE JavaFindIter(parsed.file.content, 1)

\* the keys a later step of the same extraction assigns
Reassigned ==
    IF YmlVisited THEN BlockKeys(parsed.file.yaml)
    ELSE (IF Search("package", parsed.file.content, 1).ok THEN {kPackage} ELSE {})
         \cup (IF JavaMethodFindAll(parsed.file.content, 1) # <<>>
               THEN {kTEST_METHODS} ELSE {})

\* the stripped values of the occurrences of key k, in document order
ValuesOf(raw, k) ==
    LET occ == SelectSeq(raw, LAMBDA m : Lower(m.key) = k)
    IN  [j \in 1..Len(occ) |-> Str(Strip(occ[j].value))]

\* the mapping md holds key k as the annotation matches raw give it
Accumulated(md, raw, k) ==
    /\ k \in DOMAIN md
    /\ Len(ValuesOf(raw, k)) = 1 => md[k] = ValuesOf(raw, k)[1]
    /\ Len(ValuesOf(raw, k)) >= 2 => md[k] = Lst(ValuesOf(raw, k))

\* C8: in both annotation syntaxes, at the end of the annotation loop a key
\* that occurs once maps to a single string and a key that occurs n >= 2
\* times maps to the list of its n values in document order; keys are
\* lower-cased, so occurrences that differ only in case accumulate into one
\* list; the mapping has no other key.  The returned metadata holds the
\* same under every key no later step of the extraction assigns.
C8_RepeatedKeysAccumulate ==
    (parsed.t = "parsed" /\ parsed.file.readable) =>
        /\ DOMAIN parsed.annotated =
              {Lower(RawMatches[i].key) : i \in DOMAIN RawMatches}
        /\ \A k \in DOMAIN parsed.annotated :
              Accumulated(parsed.annotated, RawMatches, k)
        /\ IsMatch(parsed.match) =>
              \A k \in DOMAIN parsed.annotated \ Reassigned :
                  Accumulated(parsed.match.metadata, RawMatches, k)

\* a key seen three times, in two spellings, and a key seen once
C8_Witness ==
    /\ parsed.t = "parsed"
    /\ IsMatch(parsed.match)
    /\ \E i \in DOMAIN RawMatches : \E j \in DOMAIN RawMatches :
          /\ Lower(RawMatches[i].key) = Lower(RawMatches[j].key)
          /\ RawMatches[i].key # RawMatches[j].key
          /\ Lower(RawMatches[i].key) \notin Reassigned
          /\ Len(ValuesOf(RawMatches, Lower(RawMatches[i].key))) = 3
          /\ parsed.match.metadata[Lower(RawMatches[i].key)].t = "list"
    /\ \E i \in DOMAIN RawMatches :
          /\ Lower(RawMatches[i].key) \notin Reassigned
          /\ Len(ValuesOf(RawMatches, Lower(RawMatches[i].key))) = 1

\* the files of a candidate list that parse to a match
Healthy(files, Parse(_, _)) ==
    SelectSeq(files, LAMBDA f : IsMatch(Parse(f, criteria)))

\* search() as one function of the candidate lists
SearchOf(ymls, javas) ==
    LET parsedYml  == [i \in DOMAIN ymls |-> ParseYmlFile(ymls[i], criteria)]
        parsedJava == [i \in DOMAIN javas |-> ParseJavaFile(javas[i], criteria)]
        positive(m) == m.relevance_score > 0
    IN  SortByScore(SelectSeq(parsedYml, positive) \o SelectSeq(parsedJava, positive))

\* a directory that is missing, or a file that cannot be read or extracted
SomethingFails ==
    /\ \E i \in DOMAIN config_roots : ~config_roots[i].exists
    /\ \E i \in DOMAIN java_roots : ~java_roots[i].exists
    /\ \E i \in DOMAIN AllYml : ~AllYml[i].readable
    /\ \E i \in DOMAIN AllYml :
          AllYml[i].readable /\ ~IsMatch(ParseYmlFile(AllYml[i], criteria))

\* C9: an unreadable or unextractable file, or a missing root, never
\* aborts a search: no exception leaves search(), and the list returned is
\* the one a search over the other candidates alone returns.
C9_FailuresAreSkipped ==
    /\ mode = "search" => ~raised
    /\ SearchDone =>
          result = SearchOf(Healthy(AllYml, ParseYmlFile),
                            Healthy(AllJava, ParseJavaFile))

\* a search returned matches past a missing root and two failing files
C9_Witness ==
    /\ SearchDone
    /\ SomethingFails
    /\ result # <<>>

\* the structured-document step fails: the body does not parse, or its
\* metadata field is not a mapping of string keys
YamlStepFails(y) ==
    \/ y.t = "error"
    \/ /\ y.t = "dict"
       /\ y.v # <<>>
       /\ HasKey(y, Str(kMETADATA))
       /\ \/ Item(y, Str(kMETADATA)).t # "dict"
          \/ \E i \in DOMAIN Block(y) : Block(y)[i][1].t # "str"

\* C10: when the structured-document step fails, extraction still returns
\* the file with exactly its directive-derived metadata.
C10_YamlFailureKeepsDirectives ==
    (YmlVisited /\ parsed.file.readable /\ YamlStepFails(parsed.file.yaml)) =>
        /\ IsMatch(parsed.match)
        /\ parsed.match.metadata = YmlDirectives(parsed.file.content)

----------------------------------------------------------------------------
(* Properties of JavaCodeModifier                                          *)

\* param_name matches a declaration of the text under one of the two
\* strategies
Declared(param_name, text) ==
    SearchParameter(param_name, text).ok \/ SearchVariable(param_name, text).ok

AllDeclared(text, mods) == \A k \in 1..Len(mods) : Declared(mods[k][1], text)

\* C11: modify_parameters is idempotent: for a modification set whose names
\* all match a declaration of the text, applying it to its own output returns
\* that output again.
C11_ModifyIsIdempotent ==
    (pc = "modified_again" /\ AllDeclared(mp_content, mp_mods))
        => mp_again = mp_out

\* the outcome of modify_parameters after the first k items of the loop
After(k) == ModifyParameters(mp_content, SubSeq(mp_mods, 1, k))

\* one item of the loop: before and after are the outcomes around it
NoOpWhenUndeclared(param_name, before, after) ==
    (~before.raised /\ ~Declared(param_name, before.v)) => after = before

\* C12: a name that matches no declaration of the current text under either
\* strategy leaves the text unchanged and raises nothing, whatever its value.
C12_UndeclaredNameIsNoOp ==
    pc = "modified" =>
        /\ mp_out = After(Len(mp_mods))
        /\ \A k \in 1..Len(mp_mods) :
              NoOpWhenUndeclared(mp_mods[k][1], After(k - 1), After(k))

\* a declared name rewrote the text and an undeclared one, given a value
\* int() rejects in a text that declares an int, then left it as it was
C12_Witness ==
    /\ pc = "modified"
    /\ mp_content = JavaIntLimit
    /\ Len(mp_mods) = 2
    /\ mp_mods[1] = <<w_limit, IntV(7)>>
    /\ mp_mods[2] = <<w_zz, Str(w_a_semicolon_b)>>
    /\ ~Declared(w_zz, After(1).v)
    /\ After(1) # Converted(mp_content)
    /\ mp_out = After(1)

\* after is before with nothing changed outside positions start..end-1
OutsideKept(before, after, start, end) ==
    /\ Len(after) >= (start - 1) + (Len(before) - end + 1)
    /\ SubSeq(after, 1, start - 1) = SubSeq(before, 1, start - 1)
    /\ SubSeq(after, Len(after) - (Len(before) - end), Len(after))
           = SubSeq(before, end, Len(before))

\* the first annotated declaration of the name in the text, if any
FirstParameterFrom(param_name, text, starts) ==
    IF starts = {} THEN NotFound
    ELSE NamedParameterMatchAt(param_name, text, Min(starts))

FirstParameter(param_name, text) ==
    FirstParameterFrom(param_name, text,
                       {i \in 1..Len(text) :
                           NamedParameterMatchAt(param_name, text, i).ok})

\* the first declaration of a variable of the name in the text, if any
FirstVariableFrom(var_name, text, starts) ==
    IF starts = {} THEN NotFound
    ELSE VariableMatchAt(var_name, text, Min(starts))

FirstVariable(var_name, text) ==
    FirstVariableFrom(var_name, text,
                      {i \in 1..Len(text) : VariableMatchAt(var_name, text, i).ok})

\* the first declaration that matches the name: the annotated one when
\* there is one, else the bare one
FirstDeclaration(param_name, text) ==
    IF FirstParameter(param_name, text).ok THEN FirstParameter(param_name, text)
    ELSE FirstVariable(param_name, text)

\* C13 as stated: for a modification name only the first matching
\* declaration is rewritten; every other declaration is left untouched.
C13_OneDeclarationPerName ==
    (pc = "modified" /\ Len(mp_mods) = 1 /\ ~mp_out.raised
     /\ FirstDeclaration(mp_mods[1][1], mp_content).ok)
        => LET first == FirstDeclaration(mp_mods[1][1], mp_content)
           IN  OutsideKept(mp_content, mp_out.v, first.start, first.end)

\* what one strategy may change: nothing outside the first match of its
\* pattern, and nothing at all without a match
OneMatchRewritten(before, after, first) ==
    IF first.ok THEN OutsideKept(before, after, first.start, first.end)
    ELSE after = before

\* one item of the loop, before and after being the outcomes around it and
\* mid the outcome of _replace_parameter between the two strategies
BetweenStrategies(item, before, mid, after) ==
    ~mid.raised =>
        /\ OneMatchRewritten(before.v, mid.v, FirstParameter(item[1], before.v))
        /\ ~after.raised =>
               OneMatchRewritten(mid.v, after.v, FirstVariable(item[1], mid.v))

StrategiesKeepTheRest(item, before, after) ==
    BetweenStrategies(item, before,
                      ReplaceParameter(before.v, item[1], item[2]), after)

\* the loop raised before item k
before_raised(k) == After(k - 1).raised

\* C13 (amended): for each modification name each of the two strategies
\* rewrites at most one declaration, the first match of its pattern in the
\* current text, so at most two declarations change; the text outside those
\* matches is left untouched.
C13_FirstMatchPerStrategy ==
    pc = "modified" =>
        /\ mp_out = After(Len(mp_mods))
        /\ \A k \in 1..Len(mp_mods) :
              before_raised(k) \/ StrategiesKeepTheRest(mp_mods[k], After(k - 1),
                                                        After(k))

\* a parameter held in a field of another name and a bare field of its name:
\* both literals were rewritten
C13_Witness ==
    /\ pc = "modified"
    /\ mp_content = JavaShadowField
    /\ mp_mods = <<<<w_start, IntV(7)>>>>
    /\ ~mp_out.raised
    /\ LET p == FirstParameter(w_start, mp_content)
           mid == ReplaceParameter(mp_content, w_start, IntV(7)).v
           q == FirstVariable(w_start, mid)
       IN  /\ p.ok /\ q.ok
           /\ q.start >= p.start + (Len(mid) - Len(mp_content)) + (p.end - p.start)
           /\ mid # mp_content
           /\ mp_out.v # mid

\* C14: when the annotated-field strategy matches, what _replace_parameter
\* returns differs from its input only in the literal of that declaration:
\* annotation, qualifier, type, variable, whitespace and every other line are
\* kept.
C14_OnlyLiteralRewritten ==
    (pc = "modified" /\ Len(mp_mods) = 1) =>
        LET p == FirstParameter(mp_mods[1][1], mp_content)
            out == ReplaceParameter(mp_content, mp_mods[1][1], mp_mods[1][2])
        IN  (p.ok /\ ~out.raised) =>
                OutsideKept(mp_content, out.v,
                            p.end - 1 - Len(p.value), p.end - 1)

----------------------------------------------------------------------------
(* Properties of _format_value                                             *)

\* an optional '-' and digits
IsDecimal(s) == IsDigits(IF IsNegative(s) THEN Tail(s) ELSE s)

\* a decimal, a '.' and digits
IsFraction(s) ==
    \E i \in 2..(Len(s) - 1) :
        /\ s[i] = "."
        /\ IsDecimal(SubSeq(s, 1, i - 1))
        /\ IsDigits(SubSeq(s, i + 1, Len(s)))

\* the text is a number of the given shape followed by the suffix
Suffixed(text, suffix, fraction) ==
    /\ Len(text) > Len(suffix)
    /\ SubSeq(text, Len(text) - Len(suffix) + 1, Len(text)) = suffix
    /\ IF fraction THEN IsFraction(SubSeq(text, 1, Len(text) - Len(suffix)))
       ELSE IsDecimal(SubSeq(text, 1, Len(text) - Len(suffix)))

InQuotes(s) == <<"\"">> \o s \o <<"\"">>

\* C15: the literal follows the type token: String gives the value in double
\* quotes, int and Integer the plain decimal, long the decimal and L, double
\* the decimal and d, float the decimal and f, boolean the token true or
\* false, a list type with a list value Arrays.asList(..) of the elements
\* each in double quotes.
C15_LiteralFollowsType ==
    (pc = "formatted" /\ fv_value # None) =>
        /\ fv_type = t_String =>
              /\ ~fv_out.raised
              /\ fv_out.v = InQuotes(PyStr(fv_value))
              /\ fv_value.t = "str" => fv_out.v = InQuotes(fv_value.v)
        /\ fv_type \in {t_int, t_Integer} =>
              /\ ~fv_out.raised => IsDecimal(fv_out.v)
              /\ fv_value.t = "int" => fv_out = Converted(IntToStr(fv_value.v))
        /\ fv_type = t_long =>
              /\ ~fv_out.raised => Suffixed(fv_out.v, <<"L">>, FALSE)
              /\ fv_value.t = "int" =>
                    fv_out = Converted(IntToStr(fv_value.v) \o <<"L">>)
        /\ fv_type = t_double =>
              /\ ~fv_out.raised => Suffixed(fv_out.v, <<"d">>, TRUE)
              /\ fv_value.t = "float" => fv_out = Converted(fv_value.v \o <<"d">>)
        /\ fv_type = t_float =>
              /\ ~fv_out.raised => Suffixed(fv_out.v, <<"f">>, TRUE)
              /\ fv_value.t = "float" => fv_out = Converted(fv_value.v \o <<"f">>)
        /\ fv_type = t_boolean =>
              /\ ~fv_out.raised
              /\ fv_out.v \in {kTrue, kFalse}
              /\ fv_value.t = "bool" => (fv_out.v = kTrue <=> fv_value.v)
        /\ (fv_type = t_List /\ fv_value.t = "list") =>
              fv_out = Converted(kArraysAsList
                                 \o Join(<<",", " ">>,
                                         [i \in 1..Len(fv_value.v) |->
                                             InQuotes(fv_value.v[i].v)])
                                 \o <<")">>)

\* a long made of an int: 42 gives 42L
C15_Witness ==
    /\ pc = "formatted"
    /\ fv_type = t_long
    /\ fv_value = IntV(42)
    /\ fv_out = Converted(<<"4", "2", "L">>)

\* the type token is one of the tags _format_value names
Recognized(java_type) ==
    \/ Lower(java_type) \in {kString, kInt, kInteger, kLong, kDouble, kFloat,
                             kBoolean, kDate}
    \/ StartsWith(Lower(java_type), 1, kList)

\* C16: for a type token that is none of the recognized tags and a value
\* other than None, _format_value returns the value in double quotes and
\* does not raise.
C16_UnrecognizedTypeIsQuoted ==
    (pc = "formatted" /\ fv_value # None /\ ~Recognized(fv_type))
        => fv_out = Converted(InQuotes(PyStr(fv_value)))

----------------------------------------------------------------------------
(* Properties of modify_parameters with extract_parameters                 *)

\* C17: injecting then reading back agrees: for a declaration annotated
\* @Parameter("n") of type String and the modification {n: v}, the modified
\* text holds that declaration with the literal "v", extract_parameters of
\* it maps n to the same variable and type with current_value "v", and the
\* parameters not modified keep their entries.
C17_InjectThenExtract ==
    (/\ pc \in {"modified", "extracted"}
     /\ Len(mp_mods) = 1
     /\ mp_mods[1][2].t = "str"
     /\ FirstParameter(mp_mods[1][1], mp_content).ok
     /\ FirstParameter(mp_mods[1][1], mp_content).var_type = t_String)
        => LET n == mp_mods[1][1]
               v == mp_mods[1][2].v
               p == FirstParameter(n, mp_content)
               before == ExtractParameters(mp_content)
           IN  /\ ~mp_out.raised
               /\ Contains(mp_out.v, p.var_type \o <<" ">> \o p.var_name
                                     \o <<" ", "=", " ">> \o InQuotes(v)
                                     \o <<";">>)
               /\ pc = "extracted" =>
                     /\ n \in DOMAIN mp_params
                     /\ mp_params[n] = [variable_name |-> p.var_name,
                                        type |-> p.var_type,
                                        current_value |-> InQuotes(v)]
                     /\ \A q \in DOMAIN before \ {n} :
                           /\ q \in DOMAIN mp_params
                           /\ mp_params[q] = before[q]

----------------------------------------------------------------------------
(* Properties of JavaExecutor                                              *)

\* an argument of the java command that is an option or the value of -cp
IsJavaOption(cmd, i) ==
    \/ cmd[i][1] = "-D"
    \/ cmd[i] = <<"-cp">>
    \/ cmd[i - 1] = <<"-cp">>

\* C18: the build tool is decided by the marker files alone, in a fixed
\* order: pom.xml selects Maven even beside a Gradle script, else
\* build.gradle or build.gradle.kts selects Gradle, else the java command
\* runs org.junit.runner.JUnitCore with the class name as its only
\* positional argument.
C18_BuildToolByPriority ==
    pc \in {"running", "done"} =>
        /\ "pom.xml" \in ex_markers => ex_cmd[1] = <<"mvn">>
        /\ ("pom.xml" \notin ex_markers
            /\ ex_markers \cap {"build.gradle", "build.gradle.kts"} # {})
              => ex_cmd[1] = <<"gradle">>
        /\ ex_markers = {} =>
              /\ ex_cmd[1] = <<"java">>
              /\ Len(ex_cmd) >= 3
              /\ ex_cmd[Len(ex_cmd) - 1] = <<"org.junit.runner.JUnitCore">>
              /\ ex_cmd[Len(ex_cmd)] = <<ex_config.class_name>>
              /\ \A i \in 2..(Len(ex_cmd) - 2) : IsJavaOption(ex_cmd, i)

\* pom.xml beside build.gradle: Maven was started
C18_Witness ==
    /\ pc = "running"
    /\ ex_markers = {"pom.xml", "build.gradle"}
    /\ ex_cmd[1] = <<"mvn">>

\* C19: when the process exceeds the timeout, execute_test returns
\* success false, exit_code -1, error_message 'Execution timed out' and
\* execution_time_ms equal to timeout_seconds * 1000.
C19_TimeoutResult ==
    (pc = "done" /\ ex_process = "timeout") =>
        /\ ex_result.success = FALSE
        /\ ex_result.exit_code = 0 - 1
        /\ ex_result.error_message = Str("Execution timed out")
        /\ ex_result.execution_time_ms = ex_config.timeout_seconds * 1000

\* the files of the tree that match one of the report patterns
ReportFiles(tree) ==
    {e \in tree : /\ ~e.is_dir
                  /\ ~e.dangling
                  /\ \E k \in 1..Len(report_patterns) :
                        GlobMatch(report_patterns[k], e.name)}

\* C20: after a normal completion the report is the most recently modified
\* of all files of the output tree that match any report pattern, and None
\* exactly when no file matches.
C20_NewestMatchingFile ==
    (pc = "done" /\ ex_process = "exited") =>
        IF ReportFiles(ex_output) = {}
        THEN ex_result.report_path = None
        ELSE \E e \in ReportFiles(ex_output) :
                /\ ex_result.report_path = Str(e.name)
                /\ \A o \in ReportFiles(ex_output) : o.mtime <= e.mtime

\* C21: a report path returned by an execution names a file that the run
\* produced: a file that was in the output tree before the process started
\* and was not written during the run is never returned as report_path.
C21_ReportIsFresh ==
    (mode = "execute" /\ pc = "done") =>
        \A e \in ex_before \cap ex_output :
            ~e.is_dir => ex_result.report_path # Str(e.name)

\* C23: execute_test returns a result on every path; success is true
\* exactly when the process completed with exit code 0; a nonzero exit
\* gives success false with that exit code and the captured stderr; a
\* timeout or an exception while launching gives success false, exit_code
\* -1 and an error message.
C23_OutcomeToResult ==
    (mode = "execute" /\ pc = "done") =>
        /\ ex_result \notin {None, Propagated}
        /\ ex_result.success
              <=> (ex_process = "exited" /\ ex_returncode = IntV(0))
        /\ (ex_process = "exited" /\ ex_returncode # IntV(0)) =>
              /\ ex_result.success = FALSE
              /\ IntV(ex_result.exit_code) = ex_returncode
              /\ ex_result.stderr = "stderr"
        /\ ex_process \in {"timeout", "not_started"} =>
              /\ ex_result.success = FALSE
              /\ ex_result.exit_code = 0 - 1
              /\ ex_result.error_message # None

\* a scratch directory, or a file below one, is on disk
ScratchOnDisk ==
    \/ ex_disk.dirs # {}
    \/ \E f \in ex_disk.files : IsPrefix(TempDir, f.path)

C29_WritesOnlyInScratch ==
    mode = "execute_with_modifications" =>
        /\ \A f \in SourceFiles : f \in ex_disk.files
        /\ \A f \in ex_disk.files \ SourceFiles : IsPrefix(TempDir, f.path)
        /\ ex_frame.config \in ScratchConfigs
        /\ pc = "running" =>
              ex_config = [ex_frame.config EXCEPT
                              !.classpath = @ \o <<kTempDir>>]

\* an argument of the command line names this directory
Mentions(cmd, dir) ==
    \E i \in 1..Len(cmd) : \E j \in 1..Len(cmd[i]) : cmd[i][j] = dir

\* C30: with Maven or Gradle the command execute_with_modifications runs
\* is the one execute_test builds for the same request without
\* modifications, whatever the modifications: the classpath, and the
\* scratch directory with it, is not passed to the tool; only the direct
\* invocation passes the classpath.
C30_BuildToolIgnoresScratch ==
    (mode = "execute_with_modifications" /\ ex_launches > 0) =>
        IF DetectBuildTool(ex_markers) \in {"maven", "gradle"}
        THEN /\ ex_cmd = Command(DetectBuildTool(ex_markers), ex_frame.config)
             /\ ~Mentions(ex_cmd, kTempDir)
             /\ \A i \in 1..Len(ex_cmd) : ex_cmd[i] # <<"-cp">>
        ELSE /\ \E i \in 1..(Len(ex_cmd) - 1) :
                   /\ ex_cmd[i] = <<"-cp">>
                   /\ ex_cmd[i + 1] = PathJoin(ex_frame.config.classpath
                                               \o <<kTempDir>>)

\* Maven ran the test of a rewritten copy without being told of it
C30_Witness ==
    /\ mode = "execute_with_modifications"
    /\ pc = "running"
    /\ "pom.xml" \in ex_markers
    /\ ex_frame.modifications # <<>>
    /\ ex_frame.modified_content # Content([files |-> SourceFiles],
                                            ex_frame.java_file_path)
    /\ ex_frame.config.classpath # <<>>
    /\ ex_cmd[1] = <<"mvn">>

\* C24: a call of execute_test, made directly, by
\* execute_with_modifications or by execute_report, starts the external
\* process at most once: after a timeout, a nonzero exit or a launch error
\* the call ends with that one launch.
C24_LaunchedAtMostOnce ==
    /\ ex_launches <= 1
    /\ (pc = "done" /\ ex_process # "none") => ex_launches = 1

\* execute_report ran a rewritten copy, the process timed out, and the
\* call ended after its one launch
C24_Witness ==
    /\ mode = "agent"
    /\ pc = "done"
    /\ ag_call.op = "execute_report"
    /\ ex_frame # None
    /\ ex_process = "timeout"
    /\ ex_launches = 1

\* the call of the agent ended because a component raised
ComponentFailed ==
    \/ ex_returned = Propagated
    \/ /\ ag_call.parse = Propagated
       /\ ag_trace # <<>>
       /\ ag_trace[1] \in {"parse_email_content", "parse_email_dict"}

\* C25: no operation of TradeSurveillanceAgent lets an exception of a
\* component reach its caller: the operation returns a response with
\* success false that carries the message of the exception.
C25_FailureBecomesResponse ==
    (mode = "agent" /\ pc = "done") =>
        /\ ag_response # Propagated
        /\ ComponentFailed =>
              /\ ag_response.success = FALSE
              /\ ag_response.message[Len(ag_response.message)] = "str(e)"

\* C26: process_inquiry without email_content and without email_data
\* returns success false with the message 'No email content provided' and
\* invokes neither the search nor the execution; given both inputs, it
\* parses email_content.
C26_NoContentNoWork ==
    (mode = "agent" /\ pc = "done" /\ ag_call.op = "process_inquiry") =>
        /\ (ag_call.email_content = None /\ ag_call.email_data = None) =>
              /\ ag_response.success = FALSE
              /\ ag_response.message = <<"No email content provided">>
              /\ ag_trace = <<>>
              /\ ex_launches = 0
        /\ (Supplied(ag_call.email_content) /\ Supplied(ag_call.email_data)) =>
              ag_trace[1] = "parse_email_content"

\* process_inquiry was called with neither input and answered
C26_Witness ==
    /\ mode = "agent"
    /\ pc = "done"
    /\ ag_call.op = "process_inquiry"
    /\ ag_call.email_content = None
    /\ ag_call.email_data = None
    /\ ag_response.message = <<"No email content provided">>

Parses == {"parse_email_content", "parse_email_dict"}

Executions == {"execute_test", "execute_with_modifications"}

\* the class the execution pipeline was asked to run
Target == IF ex_frame # None THEN ex_frame.config.class_name
          ELSE ex_config.class_name

\* C28: process_and_execute parses, then searches, then executes; it
\* invokes the execution pipeline at most once, and only after a
\* successful inquiry, with auto_execute true and a source-test match
\* among the results; the target is the source-test match of the highest
\* relevance score, and the source file goes through the injector only
\* when the inquiry yielded a parameter.
C28_ParseSearchExecute ==
    (mode = "agent" /\ ag_call.op = "process_and_execute") =>
        /\ Len(ag_trace) <= 3
        /\ \A i \in 1..Len(ag_trace) :
              /\ ag_trace[i] \in Parses => i = 1
              /\ ag_trace[i] = "search" => (i = 2 /\ ag_trace[1] \in Parses)
              /\ ag_trace[i] \in Executions => (i = 3 /\ ag_trace[2] = "search")
        /\ ex_launches <= 1
        /\ (Len(ag_trace) = 3 /\ ag_trace[3] \in Executions) =>
              /\ ag_call.parse # Propagated
              /\ ag_call.inquiry_response.success
              /\ ag_call.auto_execute
              /\ \E m \in Range(JavaMatches(ag_call.found)) :
                    /\ m.java_class = Target
                    /\ \A o \in Range(JavaMatches(ag_call.found)) :
                          o.relevance_score <= m.relevance_score
                    /\ ex_frame # None => ex_frame.java_file_path = m.file_path
              /\ ag_trace[3] = "execute_with_modifications"
                    <=> Params(ag_call.parse) # <<>>
              /\ ex_frame # None <=> Params(ag_call.parse) # <<>>

\* the inquiry gave a trade id and the best source test ran as a rewritten
\* copy
C28_Witness ==
    /\ mode = "agent"
    /\ pc = "done"
    /\ ag_call.op = "process_and_execute"
    /\ ag_trace = <<"parse_email_dict", "search", "execute_with_modifications">>
    /\ Len(JavaMatches(ag_call.found)) = 2
    /\ Target = "FooTest"
    /\ ex_process = "exited"
    /\ ag_response.execution_result = ex_result

RECURSIVE KeyOrder(_, _)
\* the keys of the mapping in the order the loop inserted them
KeyOrder(ms, seen) ==
    IF ms = <<>> THEN <<>>
    ELSE IF Lower(Head(ms).key) \in seen THEN KeyOrder(Tail(ms), seen)
    ELSE <<Lower(Head(ms).key)>>
         \o KeyOrder(Tail(ms), seen \cup {Lower(Head(ms).key)})

\* the directive line `# @key: value`
DirectiveLine(key, value) ==
    <<"#", " ", "@">> \o key \o <<":", " ">> \o value.v \o <<"\n">>

RECURSIVE DirectiveLinesOf(_, _)
\* one directive line per value of a key, in list order
DirectiveLinesOf(key, values) ==
    IF values = <<>> THEN <<>>
    ELSE DirectiveLine(key, Head(values)) \o DirectiveLinesOf(key, Tail(values))

RECURSIVE Regenerate(_, _)
\* the directive lines of a mapping, key by key
Regenerate(metadata, keys) ==
    IF keys = <<>> THEN <<>>
    ELSE DirectiveLinesOf(Head(keys),
                          IF metadata[Head(keys)].t = "list"
                          THEN metadata[Head(keys)].v
                          ELSE <<metadata[Head(keys)]>>)
         \o Regenerate(metadata, Tail(keys))

\* the directive lines regenerated from what was extracted from content
Regenerated(content) ==
    Regenerate(YmlDirectives(content), KeyOrder(YmlFindIter(content, 1), {}))

\* C27: the metadata extracted from a document of directive lines,
\* written back as one directive line per value (the values of a repeated
\* key in list order) and extracted again, is the same mapping: same
\* keys, same values, same order inside the lists.
C27_DirectiveRoundTrip ==
    (mode = "parse" /\ pc = "parsed" /\ config_roots # <<>>
                    /\ parsed.file.readable /\ parsed.file.yaml = None) =>
        YmlDirectives(Regenerated(parsed.file.content)) = parsed.annotated

====
